---- MODULE Spec2Model ----
(***************************************************************************)
(* rmonkey: the parser (src/parser.rs) and the tree rewriter               *)
(* (src/ast/modify.rs) as state machines.                                  *)
(*                                                                         *)
(* A token is a record [kind |-> "<variant of Token>"], with a payload     *)
(* field for the payload-carrying variants (name, digits, str).  The       *)
(* parser's state is the token sequence of the lexer and the index of the  *)
(* current token; index Len(toks) + 1 is "no current token" (None).        *)
(*                                                                         *)
(* Every parsing function of the source is an operator of the same name.   *)
(* It takes the tokens and the parser state st = [pos, ev] and returns     *)
(* Result<T>: [ok |-> TRUE, val, st] or [ok |-> FALSE, err, st].  st.ev is *)
(* a history of the run: one event per loop iteration, per successful      *)
(* return of the functions the cursor invariant is about, and per failed   *)
(* internal check.                                                         *)
(***************************************************************************)
EXTENDS Integers, Sequences, FiniteSets, TLC

VARIABLES tokens, pos, statements, errors, pc, result, ev, calls,
          node, transform, out, seen,
          evaluated, object, builtin, given

vars == <<tokens, pos, statements, errors, pc, result, ev, calls, node, transform, out, seen,
          evaluated, object, builtin, given>>

\* the arguments, the result and the record of the transform's calls of modify
mvars == <<node, transform, out, seen>>

\* the program of eval and its res; the id looked up in the table of the
\* built-in functions, the args of the call and, in object, what it returns
evars == <<evaluated, object, builtin, given>>

(***************************************************************************)
(* Tokens                                                                  *)
(***************************************************************************)
Tok(k) == [kind |-> k]

Ident(n) == [kind |-> "Identifier", name |-> n]

IntTok(ds) == [kind |-> "Int", digits |-> ds]

Str(s) == [kind |-> "String", str |-> s]

None == [kind |-> "EOF"]

(***************************************************************************)
(* enum Precedence                                                         *)
(***************************************************************************)
Lowest == 0

Equals == 1

LessGreater == 2

Sum == 3

Product == 4

Prefix == 5

Call == 6

Index == 7

(***************************************************************************)
(* Results and the history                                                 *)
(***************************************************************************)
Ok(v, st) == [ok |-> TRUE, val |-> v, st |-> st]

Err(m, st) == [ok |-> FALSE, err |-> m, st |-> st]

At(st, p) == [st EXCEPT !.pos = p]

Note(st, e) == [st EXCEPT !.ev = @ \cup {e}]

LoopEv(l, from, to) == [e |-> "loop", loop |-> l, from |-> from, to |-> to]

RetEv(fn, from, to) == [e |-> "ret", fn |-> fn, from |-> from, to |-> to]

CheckEv(what, at) == [e |-> "check", what |-> what, at |-> at]

(***************************************************************************)
(* The cursor                                                              *)
(***************************************************************************)
next(toks, st) == At(st, IF st.pos <= Len(toks) THEN st.pos + 1 ELSE st.pos)

current_token(toks, st) == IF st.pos <= Len(toks) THEN toks[st.pos] ELSE None

peek_token(toks, st) == IF st.pos + 1 <= Len(toks) THEN toks[st.pos + 1] ELSE None

\* the precedence table with an entry for the colon, which parse_infix does not handle
token_precedence_of_colon(token) ==
    CASE token.kind = "Colon" -> Sum
      [] token.kind \in {"Plus", "Minus"} -> Sum
      [] token.kind \in {"Asterisk", "Slash"} -> Product
      [] token.kind \in {"LT", "GT"} -> LessGreater
      [] token.kind \in {"Eq", "NotEq"} -> Equals
      [] token.kind = "LParen" -> Call
      [] token.kind = "LBracket" -> Index
      [] OTHER -> Lowest

token_precedence(token) ==
    CASE token.kind \in {"Plus", "Minus"} -> Sum
      [] token.kind \in {"Asterisk", "Slash"} -> Product
      [] token.kind \in {"LT", "GT"} -> LessGreater
      [] token.kind \in {"Eq", "NotEq"} -> Equals
      [] token.kind = "LParen" -> Call
      [] token.kind = "LBracket" -> Index
      [] OTHER -> Lowest

current_prececence(toks, st) == token_precedence(current_token(toks, st))

peek_prececence(toks, st) == token_precedence(peek_token(toks, st))

(***************************************************************************)
(* Error messages: the text is kept as its parts.                          *)
(***************************************************************************)
new_token_error(expected, actual) == <<"expected token to be", expected, actual>>

new_parse_error(expected, actual) == <<"could not parse", actual, expected>>

expect_current_token(toks, st, expected) ==
    IF current_token(toks, st).kind = expected
    THEN Ok(TRUE, st)
    ELSE Err(new_token_error(expected, peek_token(toks, st)),
             Note(st, CheckEv("expect_current_token", st.pos)))

expect_peek_token(toks, st, expected) ==
    IF peek_token(toks, st).kind = expected
    THEN Ok(TRUE, st)
    ELSE Err(new_token_error(expected, peek_token(toks, st)), st)

expect_peek_token_and_next(toks, st, expected) ==
    LET r == expect_peek_token(toks, st, expected)
    IN  IF r.ok THEN Ok(TRUE, next(toks, st)) ELSE r

parse_identifier(token, st) ==
    IF token.kind = "Identifier"
    THEN Ok(token.name, st)
    ELSE Err(new_parse_error("identifier", token), st)

(***************************************************************************)
(* The AST.  An i64 is kept as its decimal digits without leading zeros    *)
(* (the values of the model are not negative), so that every value of the  *)
(* 64-bit range has a representation.  A field name holds values of one    *)
(* shape only.                                                             *)
(***************************************************************************)
EIdentifier(n) == [type |-> "Identifier", name |-> n]

EInteger(n) == [type |-> "Integer", int |-> n]

EBoolean(b) == [type |-> "Boolean", bool |-> b]

EString(s) == [type |-> "String", str |-> s]

EArray(es) == [type |-> "Array", elements |-> es]

EHash(m) == [type |-> "Hash", pairs |-> m]

EPrefix(op, r) == [type |-> "Prefix", operator |-> op, right |-> r]

EInfix(l, op, r) == [type |-> "Infix", left |-> l, operator |-> op, right |-> r]

EIf(c, cons, alt) == [type |-> "If", condition |-> c, consequence |-> cons, alternative |-> alt]

EFunction(ps, b) == [type |-> "Function", params |-> ps, body |-> b]

ECall(f, as) == [type |-> "Call", function |-> f, args |-> as]

EIndex(l, i) == [type |-> "Index", left |-> l, index |-> i]

EQuote(e) == [type |-> "Quote", operand |-> e]

EUnquote(e) == [type |-> "Unquote", operand |-> e]

EMacro(ps, b) == [type |-> "Macro", params |-> ps, body |-> b]

SLet(id, e) == [type |-> "Let", identifier |-> id, expression |-> e]

SReturn(e) == [type |-> "Return", expression |-> e]

SExpression(e) == [type |-> "Expression", expression |-> e]

SBlock(b) == [type |-> "Block", block |-> b]

BlockStatement(ss) == [statements |-> ss]

Program(ss) == [statements |-> ss]

(***************************************************************************)
(* str::parse::<i64> on the text of an Int token: the digits are read most *)
(* significant first; the value is representable when, leading zeros       *)
(* dropped, it has fewer than 19 digits, or 19 digits that are not above   *)
(* those of i64::MAX.                                                      *)
(***************************************************************************)
I64MaxDigits == <<9, 2, 2, 3, 3, 7, 2, 0, 3, 6, 8, 5, 4, 7, 7, 5, 8, 0, 7>>

RECURSIVE StripZeros(_)
StripZeros(ds) ==
    IF Len(ds) > 1 /\ Head(ds) = 0 THEN StripZeros(Tail(ds)) ELSE ds

RECURSIVE DigitsLeq(_, _)
DigitsLeq(a, b) ==
    IF a = <<>> THEN TRUE
    ELSE IF Head(a) # Head(b) THEN Head(a) < Head(b)
    ELSE DigitsLeq(Tail(a), Tail(b))

\* the parse accepting every text of at most as many digits as i64::MAX has
parse_i64_by_length(ds) ==
    LET n == StripZeros(ds)
    IN  IF ds = <<>> \/ Len(n) > Len(I64MaxDigits) THEN [ok |-> FALSE] ELSE [ok |-> TRUE, val |-> n]

parse_i64(ds) ==
    LET n == StripZeros(ds)
    IN  IF ds = <<>> THEN [ok |-> FALSE]
        ELSE IF Len(n) < Len(I64MaxDigits) \/ (Len(n) = Len(I64MaxDigits) /\ DigitsLeq(n, I64MaxDigits))
        THEN [ok |-> TRUE, val |-> n]
        ELSE [ok |-> FALSE]

(***************************************************************************)
(* BTreeMap<Expression, Expression>: the pairs <<key, value>> in ascending *)
(* key order.  The order of Expression (derived in the ast module) is by   *)
(* variant, then by payload.                                               *)
(***************************************************************************)
VariantOrder == <<"Identifier", "Integer", "Boolean", "String", "Array", "Hash", "Prefix", "Infix", "If", "Function", "Call", "Index", "Quote", "Unquote", "Macro">>

StringOrder == <<"", "a", "b", "c", "d", "f", "k", "v", "x", "y">>

Rank(seq, x) == IF \E i \in DOMAIN seq : seq[i] = x THEN CHOOSE i \in DOMAIN seq : seq[i] = x ELSE 0

RECURSIVE DigitsCmp(_, _)
DigitsCmp(a, b) ==
    IF Len(a) # Len(b) THEN (IF Len(a) < Len(b) THEN -1 ELSE 1)
    ELSE IF a = <<>> THEN 0
    ELSE IF Head(a) # Head(b) THEN (IF Head(a) < Head(b) THEN -1 ELSE 1)
    ELSE DigitsCmp(Tail(a), Tail(b))

IntCmp(a, b) == IF a < b THEN -1 ELSE IF a > b THEN 1 ELSE 0

RECURSIVE ExprCmp(_, _)
ExprCmp(a, b) ==
    LET then(c, d) == IF c # 0 THEN c ELSE d
    IN  IF a.type # b.type THEN IntCmp(Rank(VariantOrder, a.type), Rank(VariantOrder, b.type))
        ELSE CASE a.type = "Identifier" -> IntCmp(Rank(StringOrder, a.name), Rank(StringOrder, b.name))
               [] a.type = "Integer" -> DigitsCmp(a.int, b.int)
               [] a.type = "Boolean" -> IntCmp(IF a.bool THEN 1 ELSE 0, IF b.bool THEN 1 ELSE 0)
               [] a.type = "String" -> IntCmp(Rank(StringOrder, a.str), Rank(StringOrder, b.str))
               [] a.type = "Prefix" -> then(IntCmp(Rank(<<"Bang", "Minus">>, a.operator), Rank(<<"Bang", "Minus">>, b.operator)), ExprCmp(a.right, b.right))
               [] a.type = "Infix" -> then(ExprCmp(a.left, b.left), then(IntCmp(Rank(<<"Add", "Sub", "Mul", "Div", "LT", "GT", "Eq", "NotEq">>, a.operator), Rank(<<"Add", "Sub", "Mul", "Div", "LT", "GT", "Eq", "NotEq">>, b.operator)), ExprCmp(a.right, b.right)))
               [] a.type = "Index" -> then(ExprCmp(a.left, b.left), ExprCmp(a.index, b.index))
               [] a.type \in {"Quote", "Unquote"} -> ExprCmp(a.operand, b.operand)
               [] OTHER -> 0

RECURSIVE btree_insert_keep_first(_, _, _)
\* an insert that leaves the value of a key the map already has
btree_insert_keep_first(map, k, v) ==
    IF map = <<>> THEN <<<<k, v>>>>
    ELSE IF Head(map)[1] = k THEN map
    ELSE IF ExprCmp(k, Head(map)[1]) < 0 THEN <<<<k, v>>>> \o map
    ELSE <<Head(map)>> \o btree_insert_keep_first(Tail(map), k, v)

RECURSIVE btree_insert(_, _, _)
btree_insert(map, k, v) ==
    IF map = <<>> THEN <<<<k, v>>>>
    ELSE IF Head(map)[1] = k THEN <<<<k, v>>>> \o Tail(map)
    ELSE IF ExprCmp(k, Head(map)[1]) < 0 THEN <<<<k, v>>>> \o map
    ELSE <<Head(map)>> \o btree_insert(Tail(map), k, v)

(***************************************************************************)
(* The parsing functions.                                                  *)
(***************************************************************************)
RECURSIVE parse_statement(_, _)
RECURSIVE parse_block_statement(_, _)
RECURSIVE block_loop(_, _, _)
RECURSIVE parse_expression(_, _, _)
RECURSIVE infix_loop(_, _, _, _)
RECURSIVE parse_prefix(_, _)
RECURSIVE parse_infix(_, _, _)
RECURSIVE hash_loop(_, _, _)
RECURSIVE comma_loop(_, _, _, _)

\* The ? operator: go on with the value of an Ok, return an Err as it is.
\* The result r is computed once and handed on as a value.
Try(r, K(_)) == CHOOSE y \in {IF x.ok THEN K(x) ELSE x : x \in {r}} : TRUE

parse_integer_expression(toks, st) ==
    IF current_token(toks, st).kind = "Int"
    THEN IF parse_i64(current_token(toks, st).digits).ok
         THEN Ok(EInteger(parse_i64(current_token(toks, st).digits).val), st)
         ELSE Err(new_parse_error("integer", current_token(toks, st)), st)
    ELSE Err(new_parse_error("integer", current_token(toks, st)), st)

parse_identifier_expression(toks, st) ==
    Try(parse_identifier(current_token(toks, st), st), LAMBDA ident : Ok(EIdentifier(ident.val), st))

parse_boolean_expression(toks, st) ==
    CASE current_token(toks, st).kind = "True" -> Ok(EBoolean(TRUE), st)
      [] current_token(toks, st).kind = "False" -> Ok(EBoolean(FALSE), st)
      [] OTHER -> Err(new_parse_error("boolean", current_token(toks, st)), st)

parse_string_expression(toks, st) ==
    IF current_token(toks, st).kind = "String"
    THEN Ok(EString(current_token(toks, st).str), st)
    ELSE Err(new_parse_error("string", current_token(toks, st)), st)

\* the element parser handed to parse_comma_separated_list
parse_element(toks, st, parser) ==
    IF parser = "expression"
    THEN parse_expression(toks, st, Lowest)
    ELSE parse_identifier(current_token(toks, st), st)

\* the loop ending at a comma that a closing token follows
comma_loop_trailing_comma(toks, st, res, parser) ==
    IF peek_token(toks, st).kind = "Comma"
    THEN IF peek_token(toks, next(toks, st)).kind \in {"RParen", "RBracket"}
         THEN Ok(res, next(toks, st))
         ELSE Try(parse_element(toks, next(toks, next(toks, st)), parser), LAMBDA e :
              comma_loop(toks, Note(e.st, LoopEv("list", st.pos, e.st.pos)), Append(res, e.val), parser))
    ELSE Ok(res, st)

comma_loop(toks, st, res, parser) ==
    IF peek_token(toks, st).kind = "Comma"
    THEN Try(parse_element(toks, next(toks, next(toks, st)), parser), LAMBDA e :
         comma_loop(toks, Note(e.st, LoopEv("list", st.pos, e.st.pos)), Append(res, e.val), parser))
    ELSE Ok(res, st)

\* the list function returning an empty list without the self.next()
parse_comma_separated_list_empty_no_next(toks, st, end, parser) ==
    IF peek_token(toks, st).kind = end
    THEN Ok(<<>>, Note(st, RetEv("parse_comma_separated_list", st.pos, st.pos)))
    ELSE Try(parse_element(toks, next(toks, st), parser), LAMBDA e :
         Try(comma_loop(toks, e.st, <<e.val>>, parser), LAMBDA l :
         Try(expect_peek_token_and_next(toks, l.st, end), LAMBDA x :
         Ok(l.val, Note(x.st, RetEv("parse_comma_separated_list", st.pos, x.st.pos))))))

parse_comma_separated_list(toks, st, end, parser) ==
    IF peek_token(toks, st).kind = end
    THEN Ok(<<>>, Note(next(toks, st), RetEv("parse_comma_separated_list", st.pos, next(toks, st).pos)))
    ELSE Try(parse_element(toks, next(toks, st), parser), LAMBDA e :
         Try(comma_loop(toks, e.st, <<e.val>>, parser), LAMBDA l :
         Try(expect_peek_token_and_next(toks, l.st, end), LAMBDA x :
         Ok(l.val, Note(x.st, RetEv("parse_comma_separated_list", st.pos, x.st.pos))))))

parse_expression_list(toks, st, end) == parse_comma_separated_list(toks, st, end, "expression")

parse_function_parameters(toks, st) ==
    Try(expect_current_token(toks, st, "LParen"), LAMBDA c :
    parse_comma_separated_list(toks, st, "RParen", "identifier"))

parse_macro_parameters(toks, st) == parse_function_parameters(toks, st)

parse_array_expression(toks, st) ==
    Try(expect_current_token(toks, st, "LBracket"), LAMBDA c :
    Try(parse_expression_list(toks, st, "RBracket"), LAMBDA exprs :
    Ok(EArray(exprs.val), exprs.st)))

is_not_end(tok) == tok.kind \notin {"EOF", "RBrace"}

\* if is_not_end(self.peek_token()) { self.expect_peek_token_and_next(Token::Comma)?; }
expect_comma_unless_end(toks, st) ==
    IF is_not_end(peek_token(toks, st))
    THEN expect_peek_token_and_next(toks, st, "Comma")
    ELSE Ok(TRUE, st)

hash_loop(toks, st, map) ==
    IF is_not_end(peek_token(toks, st))
    THEN Try(parse_expression(toks, next(toks, st), Lowest), LAMBDA key :
         Try(expect_peek_token_and_next(toks, key.st, "Colon"), LAMBDA c :
         Try(parse_expression(toks, next(toks, c.st), Lowest), LAMBDA value :
         Try(expect_comma_unless_end(toks, value.st), LAMBDA x :
         hash_loop(toks, Note(x.st, LoopEv("hash", st.pos, x.st.pos)), btree_insert(map, key.val, value.val))))))
    ELSE Ok(map, st)

parse_hash_expression(toks, st) ==
    Try(expect_current_token(toks, st, "LBrace"), LAMBDA c :
    Try(hash_loop(toks, st, <<>>), LAMBDA map :
    Try(expect_peek_token_and_next(toks, map.st, "RBrace"), LAMBDA x :
    Ok(EHash(map.val), x.st))))

\* the operand of a prefix operator parsed at the lowest precedence
parse_prefix_expression_lowest(toks, st) ==
    IF current_token(toks, st).kind \notin {"Bang", "Minus"}
    THEN Err(new_parse_error("prefix operator", current_token(toks, st)), st)
    ELSE Try(parse_expression(toks, next(toks, st), Lowest), LAMBDA right :
         Ok(EPrefix(current_token(toks, st).kind, right.val), right.st))

parse_prefix_expression(toks, st) ==
    IF current_token(toks, st).kind \notin {"Bang", "Minus"}
    THEN Err(new_parse_error("prefix operator", current_token(toks, st)), st)
    ELSE Try(parse_expression(toks, next(toks, st), Prefix), LAMBDA right :
         Ok(EPrefix(current_token(toks, st).kind, right.val), right.st))

infix_operator(kind) ==
    CASE kind = "Plus" -> "Add"
      [] kind = "Minus" -> "Sub"
      [] kind = "Asterisk" -> "Mul"
      [] kind = "Slash" -> "Div"
      [] OTHER -> kind

parse_infix_expression(toks, st, left) ==
    IF current_token(toks, st).kind \notin {"Plus", "Minus", "Asterisk", "Slash", "LT", "GT", "Eq", "NotEq"}
    THEN Err(new_parse_error("infix operator", current_token(toks, st)), st)
    ELSE Try(parse_expression(toks, next(toks, st), current_prececence(toks, st)), LAMBDA right :
         Ok(EInfix(left, infix_operator(current_token(toks, st).kind), right.val), right.st))

\* the grouped expression returned also when no `)` follows it
parse_grouped_expression_unclosed(toks, st) ==
    Try(expect_current_token(toks, st, "LParen"), LAMBDA c :
    Try(parse_expression(toks, next(toks, st), Lowest), LAMBDA expr :
    IF peek_token(toks, expr.st).kind = "RParen" THEN Ok(expr.val, next(toks, expr.st)) ELSE Ok(expr.val, expr.st)))

parse_grouped_expression(toks, st) ==
    Try(expect_current_token(toks, st, "LParen"), LAMBDA c :
    Try(parse_expression(toks, next(toks, st), Lowest), LAMBDA expr :
    Try(expect_peek_token_and_next(toks, expr.st, "RParen"), LAMBDA x :
    Ok(expr.val, x.st))))

\* [ else { <alternative> } ]: an Option, kept as a sequence of at most one block
parse_alternative(toks, st) ==
    IF peek_token(toks, st).kind = "Else"
    THEN Try(expect_peek_token_and_next(toks, next(toks, st), "LBrace"), LAMBDA x :
         Try(parse_block_statement(toks, x.st), LAMBDA blk :
         Ok(<<blk.val>>, blk.st)))
    ELSE Ok(<<>>, st)

parse_if_expression(toks, st) ==
    Try(expect_current_token(toks, st, "If"), LAMBDA c :
    Try(expect_peek_token_and_next(toks, st, "LParen"), LAMBDA l :
    Try(parse_expression(toks, next(toks, l.st), Lowest), LAMBDA condition :
    Try(expect_peek_token_and_next(toks, condition.st, "RParen"), LAMBDA r :
    Try(expect_peek_token_and_next(toks, r.st, "LBrace"), LAMBDA x :
    Try(parse_block_statement(toks, x.st), LAMBDA consequence :
    Try(parse_alternative(toks, consequence.st), LAMBDA alternative :
    Ok(EIf(condition.val, consequence.val, alternative.val), alternative.st))))))))

\* fn(<arguments>) { <body> } and macro(<arguments>) { <body> }
parse_params_and_body(toks, st, keyword) ==
    Try(expect_current_token(toks, st, keyword), LAMBDA c :
    Try(expect_peek_token_and_next(toks, st, "LParen"), LAMBDA l :
    Try(parse_function_parameters(toks, l.st), LAMBDA params :
    Try(expect_peek_token_and_next(toks, params.st, "LBrace"), LAMBDA x :
    Try(parse_block_statement(toks, x.st), LAMBDA body :
    Ok([params |-> params.val, body |-> body.val], body.st))))))

parse_function_expression(toks, st) ==
    Try(parse_params_and_body(toks, st, "Function"), LAMBDA f :
    Ok(EFunction(f.val.params, f.val.body), f.st))

parse_macro_expression(toks, st) ==
    Try(parse_params_and_body(toks, st, "Macro"), LAMBDA m :
    Ok(EMacro(m.val.params, m.val.body), m.st))

\* parse_call_expression taking any expression as the function
parse_call_expression_any_function(toks, st, function) ==
    Try(parse_expression_list(toks, st, "RParen"), LAMBDA args :
    Ok(ECall(function, args.val), args.st))

parse_call_expression(toks, st, function) ==
    IF function.type \notin {"Identifier", "Function"}
    THEN Err(<<"could not parse", function, "call expression function">>, st)
    ELSE Try(parse_expression_list(toks, st, "RParen"), LAMBDA args :
         Ok(ECall(function, args.val), args.st))

parse_index_expression(toks, st, left) ==
    Try(expect_current_token(toks, st, "LBracket"), LAMBDA c :
    Try(parse_expression(toks, next(toks, st), Lowest), LAMBDA index :
    Try(expect_peek_token_and_next(toks, index.st, "RBracket"), LAMBDA x :
    Ok(EIndex(left, index.val), x.st))))

\* quote(<expr>) and unquote(<expr>)
parse_parenthesized_operand(toks, st, keyword) ==
    Try(expect_current_token(toks, st, keyword), LAMBDA c :
    Try(expect_peek_token_and_next(toks, st, "LParen"), LAMBDA l :
    Try(parse_expression(toks, next(toks, l.st), Lowest), LAMBDA expr :
    Try(expect_peek_token_and_next(toks, expr.st, "RParen"), LAMBDA r :
    Ok(expr.val, r.st)))))

parse_quote_expression(toks, st) ==
    Try(parse_parenthesized_operand(toks, st, "Quote"), LAMBDA q : Ok(EQuote(q.val), q.st))

parse_unquote_expression(toks, st) ==
    Try(parse_parenthesized_operand(toks, st, "Unquote"), LAMBDA q : Ok(EUnquote(q.val), q.st))

parse_prefix(toks, st) ==
    CASE current_token(toks, st).kind = "Identifier" -> parse_identifier_expression(toks, st)
      [] current_token(toks, st).kind = "Int" -> parse_integer_expression(toks, st)
      [] current_token(toks, st).kind \in {"True", "False"} -> parse_boolean_expression(toks, st)
      [] current_token(toks, st).kind = "String" -> parse_string_expression(toks, st)
      [] current_token(toks, st).kind = "LBracket" -> parse_array_expression(toks, st)
      [] current_token(toks, st).kind = "LBrace" -> parse_hash_expression(toks, st)
      [] current_token(toks, st).kind \in {"Bang", "Minus"} -> parse_prefix_expression(toks, st)
      [] current_token(toks, st).kind = "LParen" -> parse_grouped_expression(toks, st)
      [] current_token(toks, st).kind = "If" -> parse_if_expression(toks, st)
      [] current_token(toks, st).kind = "Function" -> parse_function_expression(toks, st)
      [] current_token(toks, st).kind = "Quote" -> parse_quote_expression(toks, st)
      [] current_token(toks, st).kind = "Unquote" -> parse_unquote_expression(toks, st)
      [] current_token(toks, st).kind = "Macro" -> parse_macro_expression(toks, st)
      [] OTHER -> Err(new_parse_error("prefix expression", current_token(toks, st)), st)

\* the value is the pair (expr, parsed)
parse_infix(toks, st, left) ==
    CASE peek_token(toks, st).kind \in {"Plus", "Minus", "Asterisk", "Slash", "LT", "GT", "Eq", "NotEq"} ->
           Try(parse_infix_expression(toks, next(toks, st), left), LAMBDA expr : Ok(<<expr.val, TRUE>>, expr.st))
      [] peek_token(toks, st).kind = "LParen" ->
           Try(parse_call_expression(toks, next(toks, st), left), LAMBDA expr : Ok(<<expr.val, TRUE>>, expr.st))
      [] peek_token(toks, st).kind = "LBracket" ->
           Try(parse_index_expression(toks, next(toks, st), left), LAMBDA expr : Ok(<<expr.val, TRUE>>, expr.st))
      [] OTHER -> Ok(<<left, FALSE>>, Note(st, CheckEv("parse_infix not parsed", st.pos)))

\* infix_loop with the precedence test weakened from < to <=
infix_loop_not_strict(toks, st, left, precedence) ==
    IF peek_token(toks, st).kind \notin {"EOF", "Semicolon"} /\ precedence <= peek_prececence(toks, st)
    THEN Try(parse_infix(toks, st, left), LAMBDA r :
         IF ~r.val[2] THEN Ok(r.val[1], r.st)
         ELSE infix_loop(toks, Note(r.st, LoopEv("infix", st.pos, r.st.pos)), r.val[1], precedence))
    ELSE Ok(left, st)

infix_loop(toks, st, left, precedence) ==
    IF peek_token(toks, st).kind \notin {"EOF", "Semicolon"} /\ precedence < peek_prececence(toks, st)
    THEN Try(parse_infix(toks, st, left), LAMBDA r :
         IF ~r.val[2] THEN Ok(r.val[1], r.st)
         ELSE infix_loop(toks, Note(r.st, LoopEv("infix", st.pos, r.st.pos)), r.val[1], precedence))
    ELSE Ok(left, st)

parse_expression(toks, st, precedence) ==
    Try(parse_prefix(toks, st), LAMBDA left :
    Try(infix_loop(toks, left.st, left.val, precedence), LAMBDA r :
    Ok(r.val, Note(r.st, RetEv("parse_expression", st.pos, r.st.pos)))))

\* the loop of the block going on after a failed statement, as the top level does
block_loop_recovering(toks, st, stmts) ==
    IF current_token(toks, st).kind \notin {"EOF", "RBrace"}
    THEN CHOOSE y \in {block_loop(toks, Note(next(toks, s.st), LoopEv("block", st.pos, next(toks, s.st).pos)),
                                   IF s.ok THEN Append(stmts, s.val) ELSE stmts) :
                        s \in {parse_statement(toks, st)}} : TRUE
    ELSE Ok(BlockStatement(stmts), st)

block_loop(toks, st, stmts) ==
    IF current_token(toks, st).kind \notin {"EOF", "RBrace"}
    THEN Try(parse_statement(toks, st), LAMBDA s :
         block_loop(toks, Note(next(toks, s.st), LoopEv("block", st.pos, next(toks, s.st).pos)), Append(stmts, s.val)))
    ELSE Ok(BlockStatement(stmts), st)

parse_block_statement(toks, st) ==
    Try(expect_current_token(toks, st, "LBrace"), LAMBDA c :
    Try(block_loop(toks, next(toks, st), <<>>), LAMBDA blk :
    Ok(blk.val, Note(blk.st, RetEv("parse_block_statement", st.pos, blk.st.pos)))))

\* the optional semicolon left unconsumed
skip_semicolon_never(toks, st) == st

\* if self.peek_token() == Some(&Token::Semicolon) { self.next(); }
skip_semicolon(toks, st) == IF peek_token(toks, st).kind = "Semicolon" THEN next(toks, st) ELSE st

parse_let_statement(toks, st) ==
    Try(expect_current_token(toks, st, "Let"), LAMBDA c :
    Try(parse_identifier(current_token(toks, next(toks, st)), next(toks, st)), LAMBDA identifier :
    Try(expect_peek_token_and_next(toks, identifier.st, "Assign"), LAMBDA x :
    Try(parse_expression(toks, next(toks, x.st), Lowest), LAMBDA expression :
    Ok(SLet(identifier.val, expression.val), skip_semicolon(toks, expression.st))))))

parse_return_statement(toks, st) ==
    Try(expect_current_token(toks, st, "Return"), LAMBDA c :
    Try(parse_expression(toks, next(toks, st), Lowest), LAMBDA expression :
    Ok(SReturn(expression.val), skip_semicolon(toks, expression.st))))

\* assert!(self.current_token().is_some())
assert_current_token(toks, st) ==
    IF current_token(toks, st) = None THEN Note(st, CheckEv("assert", st.pos)) ELSE st

parse_expression_statement(toks, st) ==
    Try(parse_expression(toks, assert_current_token(toks, st), Lowest), LAMBDA expr :
    Ok(SExpression(expr.val), skip_semicolon(toks, expr.st)))

statement_dispatch(toks, st) ==
    CASE current_token(toks, st).kind = "Let" -> parse_let_statement(toks, st)
      [] current_token(toks, st).kind = "Return" -> parse_return_statement(toks, st)
      [] current_token(toks, st).kind = "EOF" ->
           Err(new_parse_error("statement", None), Note(st, CheckEv("parse_statement", st.pos)))
      [] OTHER -> parse_expression_statement(toks, st)

parse_statement(toks, st) ==
    Try(statement_dispatch(toks, st), LAMBDA r :
    Ok(r.val, Note(r.st, RetEv("parse_statement", st.pos, r.st.pos))))

(***************************************************************************)
(* Parser::parse.  The locals of the loop are s = [pos, ev, statements,    *)
(* errors]; parse_iteration is one iteration of the while loop (one        *)
(* parse_statement call, the push of its outcome, self.next()), and        *)
(* parse_return is what follows the loop.                                  *)
(***************************************************************************)
\* push_outcome that keeps only the message of the last failure
push_outcome_last_error(toks, s, r) ==
    [pos |-> next(toks, r.st).pos,
     ev |-> r.st.ev \cup {LoopEv("parse", s.pos, next(toks, r.st).pos)},
     statements |-> IF r.ok THEN Append(s.statements, r.val) ELSE s.statements,
     errors |-> IF r.ok THEN s.errors ELSE <<r.err>>]

\* push_outcome that gives up at the first failure
push_outcome_stop(toks, s, r) ==
    [pos |-> IF r.ok THEN next(toks, r.st).pos ELSE Len(toks) + 1,
     ev |-> r.st.ev \cup {LoopEv("parse", s.pos, IF r.ok THEN next(toks, r.st).pos ELSE Len(toks) + 1)},
     statements |-> IF r.ok THEN Append(s.statements, r.val) ELSE s.statements,
     errors |-> IF r.ok THEN s.errors ELSE Append(s.errors, r.err)]

\* push_outcome without self.next()
push_outcome_no_next(toks, s, r) ==
    [pos |-> r.st.pos,
     ev |-> r.st.ev \cup {LoopEv("parse", s.pos, r.st.pos)},
     statements |-> IF r.ok THEN Append(s.statements, r.val) ELSE s.statements,
     errors |-> IF r.ok THEN s.errors ELSE Append(s.errors, r.err)]

\* push_outcome that resumes, after a failure, behind the next semicolon
push_outcome_to_semicolon(toks, s, r) ==
    [pos |-> IF r.ok THEN next(toks, r.st).pos
             ELSE IF \E i \in r.st.pos..Len(toks) : toks[i].kind = "Semicolon"
             THEN 1 + CHOOSE i \in r.st.pos..Len(toks) :
                         /\ toks[i].kind = "Semicolon"
                         /\ \A j \in r.st.pos..(i - 1) : toks[j].kind # "Semicolon"
             ELSE Len(toks) + 1,
     ev |-> r.st.ev \cup {LoopEv("parse", s.pos, next(toks, r.st).pos)},
     statements |-> IF r.ok THEN Append(s.statements, r.val) ELSE s.statements,
     errors |-> IF r.ok THEN s.errors ELSE Append(s.errors, r.err)]

push_outcome(toks, s, r) ==
    [pos |-> next(toks, r.st).pos,
     ev |-> r.st.ev \cup {LoopEv("parse", s.pos, next(toks, r.st).pos)},
     statements |-> IF r.ok THEN Append(s.statements, r.val) ELSE s.statements,
     errors |-> IF r.ok THEN s.errors ELSE Append(s.errors, r.err)]

parse_iteration(toks, s) == push_outcome(toks, s, parse_statement(toks, [pos |-> s.pos, ev |-> s.ev]))

parse_return(s) ==
    IF s.errors = <<>>
    THEN [ok |-> TRUE, program |-> Program(s.statements)]
    ELSE [ok |-> FALSE, errors |-> s.errors]

RECURSIVE parse_loop(_, _)
parse_loop(toks, s) ==
    IF current_token(toks, s) # None THEN parse_loop(toks, parse_iteration(toks, s)) ELSE parse_return(s)

\* Parser::new(lexer).parse()
parse(toks) == parse_loop(toks, [pos |-> 1, ev |-> {}, statements |-> <<>>, errors |-> <<>>])

(***************************************************************************)
(* The inputs: token sequences, as the lexer delivers them.                *)
(***************************************************************************)
MaxLen == 4

a == Ident("a")

b == Ident("b")

c == Ident("c")

d == Ident("d")

one == IntTok(<<1>>)

two == IntTok(<<2>>)

Alphabet == {a, one, Tok("Plus"), Tok("LParen"), Tok("RParen"), Tok("Semicolon"), Tok("Let"), Tok("Assign")}

SeqsUpTo(S, n) == UNION {[1..k -> S] : k \in 0..n}

GeneralInputs == SeqsUpTo(Alphabet, MaxLen)

(***************************************************************************)
(* Chains: operand (operator operand)*, with at most MaxOperators of the   *)
(* binary operators + - * / < > == !=; the operands are identifiers and    *)
(* integer literals in turn.  The broken chains end with an operator.      *)
(***************************************************************************)
MaxOperators == 3

BinaryOperators == {"Plus", "Minus", "Asterisk", "Slash", "LT", "GT", "Eq", "NotEq"}

Operands == <<a, two, b, one, c, two, d, one>>

Chain(ops) == [i \in 1..(2 * Len(ops) + 1) |-> IF i % 2 = 1 THEN Operands[(i + 1) \div 2] ELSE Tok(ops[i \div 2])]

ChainInputs == {Chain(ops) : ops \in SeqsUpTo(BinaryOperators, MaxOperators)}

BrokenChainInputs == {Append(Chain(ops), Tok(o)) : ops \in SeqsUpTo(BinaryOperators, 1), o \in BinaryOperators}

IsChain(toks) ==
    /\ Len(toks) % 2 = 1
    /\ \A i \in DOMAIN toks : IF i % 2 = 1 THEN toks[i].kind \in {"Identifier", "Int"} ELSE toks[i].kind \in BinaryOperators

(***************************************************************************)
(* Programs of at most MaxStatements statements, each one of a few shapes  *)
(* (with and without the optional semicolon, three of them malformed).     *)
(***************************************************************************)
MaxStatements == 2

StatementShapes ==
    { <<a>>,
      <<a, Tok("Semicolon")>>,
      <<Tok("Minus"), a>>,
      <<a, Tok("Plus"), b>>,
      <<a, Tok("Plus"), b, Tok("Asterisk"), one, Tok("Semicolon")>>,
      <<Tok("Let"), a, Tok("Assign"), one, Tok("Semicolon")>>,
      <<Tok("Let"), a, Tok("Assign"), b>>,
      <<Tok("Return"), a, Tok("Semicolon")>>,
      <<Tok("Return"), one>>,
      <<a, Tok("LParen"), b, Tok("Comma"), one, Tok("RParen")>>,
      <<Tok("LBracket"), a, Tok("Comma"), one, Tok("RBracket")>>,
      <<a, Tok("LBracket"), one, Tok("RBracket")>>,
      <<Tok("Bang"), Tok("Minus"), a>>,
      <<Tok("LParen"), a, Tok("Plus"), b, Tok("RParen"), Tok("Asterisk"), one>>,
      <<Tok("True")>>,
      <<Tok("Let"), Tok("Assign"), a, Tok("Semicolon")>>,
      <<Tok("Plus")>>,
      <<Tok("LParen"), a>> }

RECURSIVE Concat(_)
Concat(seqs) == IF seqs = <<>> THEN <<>> ELSE Head(seqs) \o Concat(Tail(seqs))

ProgramInputs == {Concat(shapes) : shapes \in SeqsUpTo(StatementShapes, MaxStatements)}

(***************************************************************************)
(* Streams of at most MaxStatements semicolon-terminated statements with   *)
(* no other semicolon in them; six of the shapes are malformed.            *)
(***************************************************************************)
SegmentShapes ==
    { <<a, Tok("Semicolon")>>,
      <<Tok("Let"), a, Tok("Assign"), one, Tok("Semicolon")>>,
      <<Tok("Return"), a, Tok("Semicolon")>>,
      <<a, Tok("Plus"), one, Tok("Semicolon")>>,
      <<Tok("Let"), Tok("Assign"), one, Tok("Semicolon")>>,
      <<Tok("Let"), a, one, Tok("Semicolon")>>,
      <<Tok("Plus"), Tok("Semicolon")>>,
      <<a, Tok("Plus"), Tok("Semicolon")>>,
      <<Tok("LParen"), a, Tok("Semicolon")>>,
      <<Tok("RParen"), Tok("Semicolon")>> }

SegmentInputs == {Concat(shapes) : shapes \in SeqsUpTo(SegmentShapes, MaxStatements)}

(***************************************************************************)
(* Inputs that make every loop of the parser iterate: literals, lists,     *)
(* blocks and operator chains, each also cut short at every token and with *)
(* up to MaxDamage tokens removed.                                         *)
(***************************************************************************)
MaxDamage == 1

LoopTemplates ==
    { <<Tok("Function"), Tok("LParen"), a, Tok("Comma"), b, Tok("RParen"),
        Tok("LBrace"), a, Tok("Semicolon"), b, Tok("RBrace")>>,
      <<Tok("LBrace"), a, Tok("Colon"), one, Tok("Comma"), b, Tok("Colon"), two, Tok("RBrace")>>,
      <<Tok("LBracket"), a, Tok("Comma"), b, Tok("Plus"), one, Tok("Comma"), two, Tok("RBracket")>>,
      <<a, Tok("Plus"), b, Tok("Asterisk"), one, Tok("Minus"), two>>,
      <<Tok("If"), Tok("LParen"), a, Tok("RParen"), Tok("LBrace"), a, Tok("Semicolon"), b, Tok("RBrace"),
        Tok("Else"), Tok("LBrace"), one, Tok("RBrace")>>,
      <<a, Tok("LParen"), b, Tok("Comma"), one, Tok("RParen"), Tok("Semicolon"),
        Tok("Let"), c, Tok("Assign"), Tok("LBracket"), Tok("RBracket")>>,
      <<Tok("Function"), Tok("LParen"), a, Tok("Comma"), b, Tok("RParen"), Tok("LBrace"),
        Tok("LBrace"), a, Tok("Colon"), one, Tok("Comma"), b, Tok("Colon"), two, Tok("RBrace"), Tok("Semicolon"),
        a, Tok("Plus"), b, Tok("Asterisk"), one, Tok("RBrace")>> }

Delete(toks, i) == SubSeq(toks, 1, i - 1) \o SubSeq(toks, i + 1, Len(toks))

RECURSIVE Damaged(_, _)
Damaged(S, n) ==
    IF n = 0 THEN S ELSE S \cup Damaged(UNION {{Delete(toks, i) : i \in 1..Len(toks)} : toks \in S}, n - 1)

Prefixes(toks) == {SubSeq(toks, 1, k) : k \in 0..Len(toks)}

LoopInputs == UNION {Prefixes(toks) : toks \in Damaged(LoopTemplates, MaxDamage)}

(***************************************************************************)
(* If-expressions, whole and with one of the mandatory delimiters missing: *)
(* the parentheses of the condition, the braces of either block.           *)
(***************************************************************************)
IfConditions == {<<a>>, <<a, Tok("LT"), b>>}

IfBlocks == {<<>>, <<a>>, <<a, Tok("Semicolon"), Tok("Return"), one, Tok("Semicolon")>>}

IfHead(condition, consequence) ==
    <<Tok("If"), Tok("LParen")>> \o condition \o <<Tok("RParen"), Tok("LBrace")>> \o consequence \o <<Tok("RBrace")>>

IfElse(alternative) == <<Tok("Else"), Tok("LBrace")>> \o alternative \o <<Tok("RBrace")>>

IfInputs ==
    {IfHead(condition, consequence) : <<condition, consequence>> \in IfConditions \X IfBlocks}
    \cup {IfHead(h[1], h[2]) \o IfElse(h[3]) : h \in IfConditions \X IfBlocks \X IfBlocks}

Delimiters == {"LParen", "RParen", "LBrace", "RBrace"}

MissingDelimiterInputs ==
    UNION {{Delete(toks, i) : i \in {j \in 1..Len(toks) : toks[j].kind \in Delimiters}} : toks \in IfInputs}

(***************************************************************************)
(* Hash literals of up to two entries, with and without a comma before the *)
(* closing brace, and with the colon of the first entry missing.           *)
(***************************************************************************)
HashKeys == {a, one, Str("s"), Tok("True")}

HashValues == {<<one>>, <<b>>, <<a, Tok("Plus"), one>>}

HashEntries == {<<key>> \o <<Tok("Colon")>> \o value : <<key, value>> \in HashKeys \X HashValues}

HashBodies ==
    {<<>>} \cup HashEntries \cup {h[1] \o <<Tok("Comma")>> \o h[2] : h \in HashEntries \X HashEntries}

HashInputs == {<<Tok("LBrace")>> \o body \o <<Tok("RBrace")>> : body \in HashBodies}

TrailingCommaInputs ==
    {<<Tok("LBrace")>> \o body \o <<Tok("Comma"), Tok("RBrace")>> : body \in HashBodies \ {<<>>}}

MissingColonInputs == {Delete(toks, 3) : toks \in HashInputs \ {<<Tok("LBrace"), Tok("RBrace")>>}}

(***************************************************************************)
(* The tree rewriter, ast/modify.rs.  Every function threads the record of *)
(* the nodes the modifier has been called with so far.                     *)
(***************************************************************************)
NProgram(p) == [node |-> "Program", program |-> p]

NStatement(stmt) == [node |-> "Statement", statement |-> stmt]

NExpression(expr) == [node |-> "Expression", expression |-> expr]

MOk(v, log) == [ok |-> TRUE, val |-> v, log |-> log]

MErr(m, log) == [ok |-> FALSE, err |-> m, log |-> log]

\* the modifiers handed to modify
turn_one_into_two(n) ==
    IF n.node = "Expression" /\ n.expression = EInteger(<<1>>)
    THEN NExpression(EInteger(<<2>>))
    ELSE n

program_for_b(n) ==
    IF n.node = "Expression" /\ n.expression = EIdentifier("b")
    THEN NProgram(Program(<<>>))
    ELSE n

statement_for_two(n) ==
    IF n.node = "Expression" /\ n.expression = EInteger(<<2>>)
    THEN NStatement(SReturn(EInteger(<<2>>)))
    ELSE n

negate_a(n) ==
    IF n.node = "Expression" /\ n.expression = EIdentifier("a")
    THEN NExpression(EPrefix("Minus", EIdentifier("a")))
    ELSE n

Modifiers == {"identity", "turn_one_into_two", "program_for_b", "statement_for_two", "negate_a"}

modifier(T, n) ==
    CASE T = "identity" -> n
      [] T = "turn_one_into_two" -> turn_one_into_two(n)
      [] T = "program_for_b" -> program_for_b(n)
      [] T = "statement_for_two" -> statement_for_two(n)
      [] T = "negate_a" -> negate_a(n)

\* Node::expression: the expression of an Expression node, an error otherwise
expression(n, log) ==
    IF n.node = "Expression" THEN MOk(n.expression, log) ELSE MErr(<<"not an expression", n.node>>, log)

RECURSIVE modify_statement(_, _, _)
RECURSIVE modify_statements(_, _, _, _)
RECURSIVE modify_block_statement(_, _, _)
RECURSIVE modify_expression(_, _, _)
RECURSIVE modify_elements(_, _, _, _)
RECURSIVE modify_entries(_, _, _, _)

\* for e in ary { elements.push(modify_expression(e, modifier)?); }
modify_elements(ary, T, log, elements) ==
    IF ary = <<>> THEN MOk(elements, log)
    ELSE Try(modify_expression(Head(ary), T, log), LAMBDA e :
         modify_elements(Tail(ary), T, e.log, Append(elements, e.val)))

modify_array(expr, T, log) ==
    Try(modify_elements(expr.elements, T, log, <<>>), LAMBDA elements :
    MOk(EArray(elements.val), elements.log))

\* for (k, v) in map { ...; new_map.insert(k, v); }
modify_entries(map, T, log, new_map) ==
    IF map = <<>> THEN MOk(new_map, log)
    ELSE Try(modify_expression(Head(map)[1], T, log), LAMBDA k :
         Try(modify_expression(Head(map)[2], T, k.log), LAMBDA v :
         modify_entries(Tail(map), T, v.log, btree_insert(new_map, k.val, v.val))))

RECURSIVE modify_entries_appending(_, _, _, _)
\* a Hash arm keeping one rewritten entry per input entry, in input order
modify_entries_appending(map, T, log, new_map) ==
    IF map = <<>> THEN MOk(new_map, log)
    ELSE Try(modify_expression(Head(map)[1], T, log), LAMBDA k :
         Try(modify_expression(Head(map)[2], T, k.log), LAMBDA v :
         modify_entries_appending(Tail(map), T, v.log, Append(new_map, <<k.val, v.val>>))))

modify_hash_appending(expr, T, log) ==
    Try(modify_entries_appending(expr.pairs, T, log, <<>>), LAMBDA new_map :
    MOk(EHash(new_map.val), new_map.log))

modify_hash(expr, T, log) ==
    Try(modify_entries(expr.pairs, T, log, <<>>), LAMBDA new_map :
    MOk(EHash(new_map.val), new_map.log))

\* the Prefix arm handing the node to the modifier instead of rebuilding it
modify_prefix_as_leaf(expr, T, log) ==
    expression(modifier(T, NExpression(expr)), Append(log, NExpression(expr)))

modify_prefix(expr, T, log) ==
    Try(modify_expression(expr.right, T, log), LAMBDA right :
    MOk(EPrefix(expr.operator, right.val), right.log))

\* an Infix arm rewriting the right operand before the left
modify_infix_right_first(expr, T, log) ==
    Try(modify_expression(expr.right, T, log), LAMBDA right :
    Try(modify_expression(expr.left, T, right.log), LAMBDA left :
    MOk(EInfix(left.val, expr.operator, right.val), left.log)))

modify_infix(expr, T, log) ==
    Try(modify_expression(expr.left, T, log), LAMBDA left :
    Try(modify_expression(expr.right, T, left.log), LAMBDA right :
    MOk(EInfix(left.val, expr.operator, right.val), right.log)))

modify_alternative(alternative, T, log) ==
    IF alternative # <<>>
    THEN Try(modify_block_statement(alternative[1], T, log), LAMBDA alt : MOk(<<alt.val>>, alt.log))
    ELSE MOk(alternative, log)

\* the If arm losing the alternative block
modify_if_without_alternative(expr, T, log) ==
    Try(modify_expression(expr.condition, T, log), LAMBDA condition :
    Try(modify_block_statement(expr.consequence, T, condition.log), LAMBDA consequence :
    MOk(EIf(condition.val, consequence.val, <<>>), consequence.log)))

modify_if(expr, T, log) ==
    Try(modify_expression(expr.condition, T, log), LAMBDA condition :
    Try(modify_block_statement(expr.consequence, T, condition.log), LAMBDA consequence :
    Try(modify_alternative(expr.alternative, T, consequence.log), LAMBDA alternative :
    MOk(EIf(condition.val, consequence.val, alternative.val), alternative.log))))

\* the Function arm rebuilding the function with no parameter
modify_function_without_params(expr, T, log) ==
    Try(modify_block_statement(expr.body, T, log), LAMBDA body :
    MOk(EFunction(<<>>, body.val), body.log))

modify_function(expr, T, log) ==
    Try(modify_block_statement(expr.body, T, log), LAMBDA body :
    MOk(EFunction(expr.params, body.val), body.log))

\* the Index arm rewriting the indexed expression only
modify_index_left_only(expr, T, log) ==
    Try(modify_expression(expr.left, T, log), LAMBDA left :
    MOk(EIndex(left.val, expr.index), left.log))

modify_index(expr, T, log) ==
    Try(modify_expression(expr.left, T, log), LAMBDA left :
    Try(modify_expression(expr.index, T, left.log), LAMBDA index :
    MOk(EIndex(left.val, index.val), index.log)))

\* the last arm rewriting the arguments of a Call before handing it over
modify_other_into_arguments(expr, T, log) ==
    IF expr.type = "Call"
    THEN Try(modify_elements(expr.args, T, log, <<>>), LAMBDA args :
         expression(modifier(T, NExpression(ECall(expr.function, args.val))),
                    Append(args.log, NExpression(ECall(expr.function, args.val)))))
    ELSE expression(modifier(T, NExpression(expr)), Append(log, NExpression(expr)))

\* other => Ok(modifier(other.into()).expression()?)
modify_other(expr, T, log) ==
    expression(modifier(T, NExpression(expr)), Append(log, NExpression(expr)))

modify_expression(expr, T, log) ==
    CASE expr.type = "Array" -> modify_array(expr, T, log)
      [] expr.type = "Hash" -> modify_hash(expr, T, log)
      [] expr.type = "Prefix" -> modify_prefix(expr, T, log)
      [] expr.type = "Infix" -> modify_infix(expr, T, log)
      [] expr.type = "If" -> modify_if(expr, T, log)
      [] expr.type = "Function" -> modify_function(expr, T, log)
      [] expr.type = "Index" -> modify_index(expr, T, log)
      [] OTHER -> modify_other(expr, T, log)

\* the statement loop leaving out a statement that failed and going on
modify_statements_skipping_failed(stmts, T, log, res) ==
    IF stmts = <<>> THEN MOk(res, log)
    ELSE CHOOSE y \in {modify_statements(Tail(stmts), T, r.log, IF r.ok THEN Append(res, r.val) ELSE res) :
                        r \in {modify_statement(Head(stmts), T, log)}} : TRUE

\* the loop putting each rewritten statement in front of the earlier ones
modify_statements_reversed(stmts, T, log, res) ==
    IF stmts = <<>> THEN MOk(res, log)
    ELSE Try(modify_statement(Head(stmts), T, log), LAMBDA stmt :
         modify_statements(Tail(stmts), T, stmt.log, <<stmt.val>> \o res))

\* for stmt in statements { statements.push(modify_statement(stmt, modifier)?); }
modify_statements(stmts, T, log, res) ==
    IF stmts = <<>> THEN MOk(res, log)
    ELSE Try(modify_statement(Head(stmts), T, log), LAMBDA stmt :
         modify_statements(Tail(stmts), T, stmt.log, Append(res, stmt.val)))

modify_block_statement(block, T, log) ==
    Try(modify_statements(block.statements, T, log, <<>>), LAMBDA stmts :
    MOk(BlockStatement(stmts.val), stmts.log))

modify_statement(stmt, T, log) ==
    CASE stmt.type = "Let" ->
           Try(modify_expression(stmt.expression, T, log), LAMBDA e :
           MOk(SLet(stmt.identifier, e.val), e.log))
      [] stmt.type = "Return" ->
           Try(modify_expression(stmt.expression, T, log), LAMBDA e : MOk(SReturn(e.val), e.log))
      [] stmt.type = "Expression" ->
           Try(modify_expression(stmt.expression, T, log), LAMBDA e : MOk(SExpression(e.val), e.log))
      [] stmt.type = "Block" ->
           Try(modify_block_statement(stmt.block, T, log), LAMBDA blk : MOk(SBlock(blk.val), blk.log))

modify_program(prog, T, log) ==
    Try(modify_statements(prog.statements, T, log, <<>>), LAMBDA stmts :
    MOk(Program(stmts.val), stmts.log))

modify(n, T) ==
    CASE n.node = "Program" ->
           Try(modify_program(n.program, T, <<>>), LAMBDA it : MOk(NProgram(it.val), it.log))
      [] n.node = "Statement" ->
           Try(modify_statement(n.statement, T, <<>>), LAMBDA it : MOk(NStatement(it.val), it.log))
      [] n.node = "Expression" ->
           Try(modify_expression(n.expression, T, <<>>), LAMBDA it : MOk(NExpression(it.val), it.log))

(***************************************************************************)
(* The nodes handed to modify: expressions nested up to MaxDepth deep,     *)
(* with every variant at every level, and statements and programs of them. *)
(***************************************************************************)
MaxDepth == 2

Leaves == {EIdentifier("a"), EIdentifier("b"), EInteger(<<1>>), EInteger(<<2>>)}

BlockOf(stmts) == BlockStatement(stmts)

Wraps(e) ==
    { EArray(<<e, EBoolean(TRUE), EString("s")>>),
      EHash(btree_insert(btree_insert(<<>>, EIdentifier("a"), e), EIdentifier("b"), EInteger(<<1>>))),
      EHash(btree_insert(btree_insert(<<>>, EInteger(<<1>>), EIdentifier("a")), e, EIdentifier("b"))),
      EPrefix("Minus", e),
      EInfix(e, "Add", EInteger(<<1>>)),
      EIf(e, BlockOf(<<SExpression(EInteger(<<1>>))>>), <<>>),
      EIf(EIdentifier("a"), BlockOf(<<SReturn(EInteger(<<1>>))>>), <<BlockOf(<<SLet("x", e), SExpression(EInteger(<<1>>))>>)>>),
      EFunction(<<"x">>, BlockOf(<<SExpression(e), SReturn(EInteger(<<1>>))>>)),
      EIndex(EIdentifier("a"), e),
      ECall(EIdentifier("f"), <<e>>),
      EQuote(e),
      EUnquote(e),
      EMacro(<<"x">>, BlockOf(<<SExpression(e)>>)) }

RECURSIVE Expressions(_)
Expressions(depth) ==
    IF depth = 0 THEN Leaves
    ELSE Expressions(depth - 1) \cup UNION {Wraps(e) : e \in Expressions(depth - 1)}

StatementsOf(e) ==
    {SLet("x", e), SReturn(e), SExpression(e), SBlock(BlockOf(<<SExpression(e), SLet("y", EInteger(<<1>>))>>))}

ProgramsOf(e) ==
    {Program(<<SLet("x", e), SExpression(EInteger(<<1>>))>>), Program(<<SExpression(EIdentifier("b")), SReturn(e)>>)}

Nodes ==
    {NExpression(e) : e \in Expressions(MaxDepth) \cup {EBoolean(FALSE), EString("s"), EArray(<<>>), EHash(<<>>)}}
    \cup {NStatement(stmt) : stmt \in UNION {StatementsOf(e) : e \in Expressions(MaxDepth - 1)}}
    \cup {NProgram(prog) : prog \in {Program(<<>>)} \cup UNION {ProgramsOf(e) : e \in Expressions(MaxDepth - 1)}}

(***************************************************************************)
(* Calls: a closed callee expression of every variant, an argument list in *)
(* parentheses, as an expression, let or return statement.                 *)
(***************************************************************************)
Callees ==
    { <<a>>,
      <<Tok("Function"), Tok("LParen"), c, Tok("RParen"), Tok("LBrace"), c, Tok("RBrace")>>,
      <<Tok("LParen"), a, Tok("RParen")>>,
      <<one>>,
      <<Str("s")>>,
      <<Tok("True")>>,
      <<Tok("LParen"), a, Tok("Plus"), b, Tok("RParen")>>,
      <<Tok("LParen"), Tok("Minus"), a, Tok("RParen")>>,
      <<a, Tok("LBracket"), one, Tok("RBracket")>>,
      <<a, Tok("LParen"), b, Tok("RParen")>>,
      <<Tok("If"), Tok("LParen"), a, Tok("RParen"), Tok("LBrace"), b, Tok("RBrace")>>,
      <<Tok("LBracket"), a, Tok("RBracket")>>,
      <<Tok("LBrace"), Tok("RBrace")>>,
      <<Tok("Quote"), Tok("LParen"), a, Tok("RParen")>>,
      <<Tok("Macro"), Tok("LParen"), c, Tok("RParen"), Tok("LBrace"), c, Tok("RBrace")>> }

Arguments == {<<>>, <<b>>, <<b, Tok("Comma"), one, Tok("Plus"), two>>}

Contexts == {"expression", "let", "return"}

ContextTokens(context) ==
    CASE context = "expression" -> <<>>
      [] context = "let" -> <<Tok("Let"), d, Tok("Assign")>>
      [] context = "return" -> <<Tok("Return")>>

CallOf(context, callee, arguments) ==
    ContextTokens(context) \o callee \o <<Tok("LParen")>> \o arguments \o <<Tok("RParen")>>

CallInputs == {CallOf(x[1], x[2], x[3]) : x \in Contexts \X Callees \X Arguments}

(***************************************************************************)
(* Hash literals of up to MaxEntries entries, keys repeated or not, and    *)
(* the same with the first colon missing.                                  *)
(***************************************************************************)
MaxEntries == 3

EntryKeys == {a, one, Str("s")}

EntryValues == {<<one>>, <<b>>}

Entries == {<<key, Tok("Colon")>> \o value : <<key, value>> \in EntryKeys \X EntryValues}

RECURSIVE Join(_, _)
Join(seqs, separator) ==
    IF seqs = <<>> THEN <<>>
    ELSE IF Len(seqs) = 1 THEN seqs[1]
    ELSE seqs[1] \o <<separator>> \o Join(Tail(seqs), separator)

HashLiterals ==
    {<<Tok("LBrace")>> \o Join(entries, Tok("Comma")) \o <<Tok("RBrace")>> : entries \in SeqsUpTo(Entries, MaxEntries)}

HashLiteralInputs ==
    HashLiterals \cup {Delete(toks, 3) : toks \in HashLiterals \ {<<Tok("LBrace"), Tok("RBrace")>>}}

(***************************************************************************)
(* Lists in the four list positions: every sequence of up to MaxItems      *)
(* elements and commas, well formed or not, between the list's brackets.   *)
(***************************************************************************)
MaxItems == 4

ListPositions == {"array", "call", "function", "macro"}

ListItems(position) ==
    IF position \in {"array", "call"} THEN {a, one, Tok("Comma")} ELSE {a, b, Tok("Comma")}

ListOpen(position) ==
    CASE position = "array" -> <<Tok("LBracket")>>
      [] position = "call" -> <<c, Tok("LParen")>>
      [] position = "function" -> <<Tok("Function"), Tok("LParen")>>
      [] position = "macro" -> <<Tok("Macro"), Tok("LParen")>>

ListClose(position) ==
    CASE position = "array" -> <<Tok("RBracket")>>
      [] position = "call" -> <<Tok("RParen")>>
      [] position \in {"function", "macro"} -> <<Tok("RParen"), Tok("LBrace"), Tok("RBrace")>>

ListOf(position, items) == ListOpen(position) \o items \o ListClose(position)

ListInputs ==
    UNION {{ListOf(position, items) : items \in SeqsUpTo(ListItems(position), MaxItems)} : position \in ListPositions}

(***************************************************************************)
(* Statements with their semicolons: a let, return or expression statement *)
(* (three of them malformed) followed by up to MaxSemicolons semicolons,   *)
(* alone or after another statement.                                       *)
(***************************************************************************)
MaxSemicolons == 2

StatementBodies ==
    { <<a>>,
      <<Tok("Minus"), a>>,
      <<a, Tok("Plus"), b, Tok("Asterisk"), one>>,
      <<Tok("True")>>,
      <<a, Tok("LParen"), b, Tok("RParen")>>,
      <<Tok("LBracket"), a, Tok("RBracket")>>,
      <<Tok("If"), Tok("LParen"), a, Tok("RParen"), Tok("LBrace"), b, Tok("Semicolon"), Tok("RBrace")>>,
      <<Tok("Function"), Tok("LParen"), Tok("RParen"), Tok("LBrace"), a, Tok("RBrace")>>,
      <<Tok("Let"), a, Tok("Assign"), one>>,
      <<Tok("Let"), a, Tok("Assign"), b, Tok("Plus"), one>>,
      <<Tok("Return"), a>>,
      <<Tok("Return"), one, Tok("Plus"), a>>,
      <<Tok("Let"), Tok("Assign"), a>>,
      <<Tok("Return")>>,
      <<a, Tok("Plus")>> }

StatementsBefore == {<<>>, <<b>>, <<b, Tok("Semicolon")>>, <<Tok("Let"), b, Tok("Assign"), one, Tok("Semicolon")>>}

Semicolons(n) == [i \in 1..n |-> Tok("Semicolon")]

SemicolonInputs ==
    {before \o body \o Semicolons(n) : before \in StatementsBefore, body \in StatementBodies, n \in 0..MaxSemicolons}

(***************************************************************************)
(* enum Object, as evaluator.rs and builtins.rs build its values.  The     *)
(* text of a String is the sequence of its bytes.                          *)
(***************************************************************************)
ONull == [object |-> "Null"]

OInteger(n) == [object |-> "Integer", int |-> n]

OBoolean(v) == [object |-> "Boolean", bool |-> v]

OString(s) == [object |-> "String", str |-> s]

OArray(elements) == [object |-> "Array", elements |-> elements]

OError(message) == [object |-> "Error", message |-> message]

(***************************************************************************)
(* The evaluator, evaluator.rs                                             *)
(***************************************************************************)
eval_expression(expr) ==
    CASE expr.type = "Integer" -> OInteger(expr.int)
      [] expr.type = "Boolean" -> OBoolean(expr.bool)
      [] OTHER -> ONull

\* the statement match that evaluates the expression of a Return as well
eval_statement_of_return(stmt) ==
    CASE stmt.type \in {"Expression", "Return"} -> eval_expression(stmt.expression)
      [] OTHER -> ONull

eval_statement(stmt) ==
    CASE stmt.type = "Expression" -> eval_expression(stmt.expression)
      [] OTHER -> ONull

(***************************************************************************)
(* The programs given to eval: up to MaxEvaluated statements, literals,    *)
(* other expressions and the other statement variants.                     *)
(***************************************************************************)
MaxEvaluated == 2

EvaluatedStatements ==
    { SExpression(EInteger(<<5>>)),
      SExpression(EInteger(<<1, 0>>)),
      SExpression(EBoolean(TRUE)),
      SExpression(EBoolean(FALSE)),
      SExpression(EIdentifier("a")),
      SExpression(EString("s")),
      SExpression(EPrefix("Minus", EInteger(<<5>>))),
      SExpression(EInfix(EInteger(<<1>>), "Add", EInteger(<<2>>))),
      SExpression(EArray(<<EInteger(<<1>>)>>)),
      SLet("x", EInteger(<<5>>)),
      SReturn(EInteger(<<5>>)),
      SReturn(EBoolean(TRUE)),
      SBlock(BlockStatement(<<SExpression(EInteger(<<5>>))>>)) }

EvaluatedPrograms == {Program(stmts) : stmts \in SeqsUpTo(EvaluatedStatements, MaxEvaluated)}

(***************************************************************************)
(* The built-in functions, builtins.rs                                     *)
(***************************************************************************)
\* the decimal digits of a usize, most significant first: `{}` of a usize
\* and `as i64` of a length
RECURSIVE DigitsOf(_)
DigitsOf(n) == IF n < 10 THEN <<n>> ELSE Append(DigitsOf(n \div 10), n % 10)

\* the text `{}` writes for an Object, left uninterpreted
object_display(o) == [display |-> o]

new_wrong_number_arguments_error(n, expected) ==
    OError(<<"wrong number of arguments. got=", DigitsOf(n), ", want=", DigitsOf(expected)>>)

\* the backquotes of the message are written as quotes
new_not_supported_error(fname, o) ==
    OError(<<"argument to '", fname, "' not supported, got '", object_display(o), "'">>)

len(arguments) ==
    IF Len(arguments) # 1 THEN new_wrong_number_arguments_error(Len(arguments), 1)
    ELSE CASE arguments[1].object = "String" -> OInteger(DigitsOf(Len(arguments[1].str)))
           [] arguments[1].object = "Array" -> OInteger(DigitsOf(Len(arguments[1].elements)))
           [] OTHER -> new_not_supported_error("len", arguments[1])

first(arguments) ==
    IF Len(arguments) # 1 THEN new_wrong_number_arguments_error(Len(arguments), 1)
    ELSE CASE arguments[1].object = "Array" ->
                IF arguments[1].elements # <<>> THEN arguments[1].elements[1] ELSE ONull
           [] OTHER -> new_not_supported_error("first", arguments[1])

\* last returning what array.first() gives
last_as_first(arguments) ==
    IF Len(arguments) # 1 THEN new_wrong_number_arguments_error(Len(arguments), 1)
    ELSE CASE arguments[1].object = "Array" ->
                IF arguments[1].elements # <<>> THEN arguments[1].elements[1] ELSE ONull
           [] OTHER -> new_not_supported_error("last", arguments[1])

last(arguments) ==
    IF Len(arguments) # 1 THEN new_wrong_number_arguments_error(Len(arguments), 1)
    ELSE CASE arguments[1].object = "Array" ->
                IF arguments[1].elements # <<>>
                THEN arguments[1].elements[Len(arguments[1].elements)]
                ELSE ONull
           [] OTHER -> new_not_supported_error("last", arguments[1])

\* the table of the functions, each under its name
FUNCTION_MAP == [name \in {"len", "first", "last"} |-> name]

\* Option<BuiltinFunction>: <<f>> for Some(f), <<>> for None
get(name) == IF name \in DOMAIN FUNCTION_MAP THEN <<FUNCTION_MAP[name]>> ELSE <<>>

\* f(args) for a function of the table
call_builtin(f, arguments) ==
    CASE f = "len" -> len(arguments)
      [] f = "first" -> first(arguments)
      [] f = "last" -> last(arguments)

(***************************************************************************)
(* The calls of the built-in functions: each name of the table, and one    *)
(* that is not in it, with up to MaxArguments objects of every variant.    *)
(***************************************************************************)
MaxArguments == 2

Objects ==
    { ONull,
      OInteger(<<1>>),
      OBoolean(TRUE),
      OString(<<>>),
      OString(<<"a", "b", "c">>),
      OError(<<"e">>),
      OArray(<<>>),
      OArray(<<OInteger(<<1>>)>>),
      OArray(<<OInteger(<<2>>), OInteger(<<4>>)>>),
      OArray(<<OString(<<"a">>), ONull, OArray(<<>>)>>) }

ArgumentLists == SeqsUpTo(Objects, MaxArguments)

Names == {"len", "first", "last", "puts"}

(***************************************************************************)
(* Blocks: the consequence and the alternative of an if, the body of a     *)
(* function and of a macro, holding the streams of statements of           *)
(* SegmentInputs.                                                          *)
(***************************************************************************)
BlockHeads ==
    { <<Tok("If"), Tok("LParen"), a, Tok("RParen"), Tok("LBrace")>>,
      <<Tok("If"), Tok("LParen"), b, Tok("RParen"), Tok("LBrace"), a, Tok("RBrace"), Tok("Else"), Tok("LBrace")>>,
      <<Tok("Function"), Tok("LParen"), a, Tok("RParen"), Tok("LBrace")>>,
      <<Tok("Macro"), Tok("LParen"), Tok("RParen"), Tok("LBrace")>> }

BlockInputs == {head \o body \o <<Tok("RBrace")>> : head \in BlockHeads, body \in SegmentInputs}

(***************************************************************************)
(* Prefix operators next to binary operators, calls and indexes: each      *)
(* prefix operator with each binary operator, and three inputs that end    *)
(* where an operand is due.                                                *)
(***************************************************************************)
PrefixOperators == {"Bang", "Minus"}

PrefixThenInfix(p, o) == <<Tok(p), a, Tok(o), b>>

PrefixOfPrefix(p, q) == <<Tok(p), Tok(q), a>>

PrefixOfCall(p) == <<Tok(p), c, Tok("LParen"), a, Tok("RParen")>>

PrefixOfIndex(p) == <<Tok(p), a, Tok("LBracket"), b, Tok("RBracket")>>

InfixThenIndex(o) == <<a, Tok(o), b, Tok("LBracket"), two, Tok("RBracket")>>

InfixThenCall(o) == <<a, Tok(o), c, Tok("LParen"), b, Tok("RParen")>>

PrefixIndexInfixCall(p, o) ==
    <<Tok(p), a, Tok("LBracket"), b, Tok("RBracket"), Tok(o), c, Tok("LParen"), d, Tok("RParen")>>

PrefixInputs ==
    {PrefixThenInfix(p, o) : p \in PrefixOperators, o \in BinaryOperators}
        \cup {PrefixOfPrefix(p, q) : p \in PrefixOperators, q \in PrefixOperators}
        \cup {PrefixOfCall(p) : p \in PrefixOperators}
        \cup {PrefixOfIndex(p) : p \in PrefixOperators}
        \cup {InfixThenIndex(o) : o \in BinaryOperators}
        \cup {InfixThenCall(o) : o \in BinaryOperators}
        \cup {PrefixIndexInfixCall(p, o) : p \in PrefixOperators, o \in BinaryOperators}
        \cup {<<Tok(p)>> : p \in PrefixOperators}
        \cup {<<Tok(p), Tok("Asterisk"), a>> : p \in PrefixOperators}
        \cup {<<a, Tok(o), Tok("Bang")>> : o \in BinaryOperators}

(***************************************************************************)
(* Groups: every sequence of up to MaxLen tokens between `(` and `)`, and  *)
(* two products with a grouped sum.                                        *)
(***************************************************************************)
GroupAlphabet == {a, Tok("Plus"), Tok("Asterisk"), Tok("LParen"), Tok("RParen"), Tok("Semicolon")}

Grouped(e) == <<Tok("LParen")>> \o e \o <<Tok("RParen")>>

GroupedSumTimes == <<Tok("LParen"), a, Tok("Plus"), b, Tok("RParen"), Tok("Asterisk"), c>>

TimesGroupedSum == <<a, Tok("Asterisk"), Tok("LParen"), b, Tok("Plus"), c, Tok("RParen")>>

GroupInputs == {Grouped(e) : e \in SeqsUpTo(GroupAlphabet, MaxLen)} \cup {GroupedSumTimes, TimesGroupedSum}

(***************************************************************************)
(* Integer literals around i64::MAX = 9223372036854775807, each as an      *)
(* expression statement, as the operand of a unary minus, in a let         *)
(* statement, as the left operand of a sum and as an array element.        *)
(***************************************************************************)
Zeros(n) == [i \in 1..n |-> 0]

Nines(n) == [i \in 1..n |-> 9]

IntegerLiterals ==
    { <<0>>,
      <<5>>,
      <<0, 0, 7>>,
      Nines(18),
      <<1>> \o Zeros(18),
      <<9, 2, 2, 3, 3, 7, 2, 0, 3, 6, 8, 5, 4, 7, 7, 5, 8, 0, 6>>,
      <<9, 2, 2, 3, 3, 7, 2, 0, 3, 6, 8, 5, 4, 7, 7, 5, 8, 0, 7>>,
      <<0, 9, 2, 2, 3, 3, 7, 2, 0, 3, 6, 8, 5, 4, 7, 7, 5, 8, 0, 7>>,
      <<9, 2, 2, 3, 3, 7, 2, 0, 3, 6, 8, 5, 4, 7, 7, 5, 8, 0, 8>>,
      <<0, 9, 2, 2, 3, 3, 7, 2, 0, 3, 6, 8, 5, 4, 7, 7, 5, 8, 0, 8>>,
      <<9, 2, 2, 3, 3, 7, 2, 0, 3, 6, 8, 5, 4, 7, 7, 5, 8, 1, 7>>,
      <<9, 3>> \o Zeros(17),
      Nines(19),
      <<1>> \o Zeros(19),
      <<1, 8, 4, 4, 6, 7, 4, 4, 0, 7, 3, 7, 0, 9, 5, 5, 1, 6, 1, 6>>,
      <<1, 8, 4, 4, 6, 7, 4, 4, 0, 7, 3, 7, 0, 9, 5, 5, 1, 6, 2, 1>> }

IntegerContexts == {"expression", "minus", "let", "sum", "array"}

IntegerIn(context, ds) ==
    CASE context = "expression" -> <<IntTok(ds)>>
      [] context = "minus" -> <<Tok("Minus"), IntTok(ds)>>
      [] context = "let" -> <<Tok("Let"), a, Tok("Assign"), IntTok(ds), Tok("Semicolon")>>
      [] context = "sum" -> <<IntTok(ds), Tok("Plus"), one>>
      [] context = "array" -> <<Tok("LBracket"), one, Tok("Comma"), IntTok(ds), Tok("RBracket")>>

IntegerInputs == {IntegerIn(context, ds) : context \in IntegerContexts, ds \in IntegerLiterals}

(***************************************************************************)
(* Inputs for the internal checks: the inputs of the loops, of the calls,  *)
(* of the lists and of the blocks, and two more templates with the         *)
(* remaining constructs, cut short at every token and with up to MaxDamage *)
(* tokens removed.                                                         *)
(***************************************************************************)
CheckTemplates ==
    { <<Tok("Macro"), Tok("LParen"), a, Tok("RParen"), Tok("LBrace"),
        Tok("Quote"), Tok("LParen"), Tok("Unquote"), Tok("LParen"), a, Tok("RParen"), Tok("RParen"), Tok("Semicolon"),
        Tok("Return"), Tok("LParen"), a, Tok("RParen"), Tok("LBracket"), one, Tok("RBracket"), Tok("RBrace")>>,
      <<Tok("Let"), a, Tok("Assign"), Tok("Bang"), Tok("Minus"), b, Tok("LParen"), one, Tok("RParen"),
        Tok("LBracket"), two, Tok("RBracket"), Tok("Semicolon"), Tok("True"), Str("s"), Tok("False")>> }

CheckInputs ==
    LoopInputs \cup CallInputs \cup ListInputs \cup BlockInputs
        \cup UNION {Prefixes(toks) : toks \in Damaged(CheckTemplates, MaxDamage)}

(***************************************************************************)
(* The state machine of one call of parse: tokens is the lexer's output,   *)
(* pos the current token, statements and errors the two vectors of parse,  *)
(* ev the history the parsing functions leave, calls the outcome of every  *)
(* parse_statement call of the top-level loop, result what parse returns.  *)
(***************************************************************************)
Locals == [pos |-> pos, ev |-> ev, statements |-> statements, errors |-> errors]

Start(inputs) ==
    /\ tokens \in inputs
    /\ pos = 1
    /\ statements = <<>>
    /\ errors = <<>>
    /\ pc = "loop"
    /\ result = [ok |-> FALSE, errors |-> <<>>]
    /\ ev = {}
    /\ calls = <<>>
    /\ node = NProgram(Program(<<>>))
    /\ transform = "identity"
    /\ out = [ok |-> FALSE]
    /\ seen = <<>>
    /\ evaluated = Program(<<>>)
    /\ object = ONull
    /\ builtin = "len"
    /\ given = <<>>

Iterate(s, call) ==
    /\ pos' = s.pos
    /\ ev' = s.ev
    /\ statements' = s.statements
    /\ errors' = s.errors
    /\ calls' = Append(calls, call)
    /\ UNCHANGED <<tokens, pc, result>>
    /\ UNCHANGED mvars
    /\ UNCHANGED evars

StatementOk(r) ==
    /\ r.ok
    /\ \E s \in {push_outcome(tokens, Locals, r)} :
          Iterate(s, [ok |-> TRUE, at |-> pos, end |-> r.st.pos, stmt |-> r.val])

StatementErr(r) ==
    /\ ~r.ok
    /\ \E s \in {push_outcome(tokens, Locals, r)} :
          Iterate(s, [ok |-> FALSE, at |-> pos, end |-> r.st.pos, err |-> r.err])

ParseStatementOk ==
    /\ pc = "loop"
    /\ current_token(tokens, Locals) # None
    /\ \E r \in {parse_statement(tokens, [pos |-> pos, ev |-> ev])} : StatementOk(r)

ParseStatementErr ==
    /\ pc = "loop"
    /\ current_token(tokens, Locals) # None
    /\ \E r \in {parse_statement(tokens, [pos |-> pos, ev |-> ev])} : StatementErr(r)

ReturnProgram ==
    /\ pc = "loop"
    /\ current_token(tokens, Locals) = None
    /\ parse_return(Locals).ok
    /\ result' = parse_return(Locals)
    /\ pc' = "done"
    /\ UNCHANGED <<tokens, pos, statements, errors, ev, calls>>
    /\ UNCHANGED mvars
    /\ UNCHANGED evars

ReturnErrors ==
    /\ pc = "loop"
    /\ current_token(tokens, Locals) = None
    /\ ~parse_return(Locals).ok
    /\ result' = parse_return(Locals)
    /\ pc' = "done"
    /\ UNCHANGED <<tokens, pos, statements, errors, ev, calls>>
    /\ UNCHANGED mvars
    /\ UNCHANGED evars

Next == ParseStatementOk \/ ParseStatementErr \/ ReturnProgram \/ ReturnErrors

Init == Start(GeneralInputs)

Spec == Init /\ [][Next]_vars

InitChain == Start(ChainInputs \cup BrokenChainInputs)

SpecChain == InitChain /\ [][Next]_vars

InitProgram == Start(ProgramInputs)

SpecProgram == InitProgram /\ [][Next]_vars

(***************************************************************************)
(* Display of the AST (the text the precedence tests compare) and the      *)
(* lexer, for the variants whose text the spec and the tests give.  A text *)
(* is a sequence of characters.  The names of the inputs are one letter.   *)
(***************************************************************************)
Letters == {"a", "b", "c", "d", "e", "f", "g", "h", "i", "j", "k", "l", "m", "n", "o", "p", "q", "r", "s", "t", "u", "v", "w", "x", "y", "z"}

DigitChars == <<"0", "1", "2", "3", "4", "5", "6", "7", "8", "9">>

Keywords == {"let", "return", "if", "else", "fn", "true", "false", "macro", "quote", "unquote"}

KeywordKind(w) ==
    CASE w = "let" -> "Let" [] w = "return" -> "Return" [] w = "if" -> "If" [] w = "else" -> "Else"
      [] w = "fn" -> "Function" [] w = "true" -> "True" [] w = "false" -> "False"
      [] w = "macro" -> "Macro" [] w = "quote" -> "Quote" [] w = "unquote" -> "Unquote"

Symbols == {"=", "+", "-", "!", "*", "/", "<", ">", ",", ";", ":", "(", ")", "{", "}", "[", "]"}

SymbolKind(ch) ==
    CASE ch = "=" -> "Assign" [] ch = "+" -> "Plus" [] ch = "-" -> "Minus" [] ch = "!" -> "Bang"
      [] ch = "*" -> "Asterisk" [] ch = "/" -> "Slash" [] ch = "<" -> "LT" [] ch = ">" -> "GT"
      [] ch = "," -> "Comma" [] ch = ";" -> "Semicolon" [] ch = ":" -> "Colon"
      [] ch = "(" -> "LParen" [] ch = ")" -> "RParen" [] ch = "{" -> "LBrace" [] ch = "}" -> "RBrace"
      [] ch = "[" -> "LBracket" [] ch = "]" -> "RBracket"

DigitOf(ch) == (CHOOSE k \in DOMAIN DigitChars : DigitChars[k] = ch) - 1

IsDigit(ch) == \E k \in DOMAIN DigitChars : DigitChars[k] = ch

\* the last index of the run of characters of one class that starts at i
RECURSIVE RunEnd(_, _, _)
RunEnd(cs, i, digits) ==
    IF i + 1 <= Len(cs) /\ (IF digits THEN IsDigit(cs[i + 1]) ELSE cs[i + 1] \in Letters)
    THEN RunEnd(cs, i + 1, digits)
    ELSE i

RECURSIVE Word(_, _, _)
Word(cs, i, j) == IF i > j THEN "" ELSE cs[i] \o Word(cs, i + 1, j)

WordToken(w) == IF w \in Keywords THEN Tok(KeywordKind(w)) ELSE Ident(w)

RECURSIVE LexFrom(_, _)
LexFrom(cs, i) ==
    CASE i > Len(cs) -> <<>>
      [] i <= Len(cs) /\ cs[i] = " " -> LexFrom(cs, i + 1)
      [] i <= Len(cs) /\ cs[i] \in Letters ->
           <<WordToken(Word(cs, i, RunEnd(cs, i, FALSE)))>> \o LexFrom(cs, RunEnd(cs, i, FALSE) + 1)
      [] i <= Len(cs) /\ IsDigit(cs[i]) ->
           <<IntTok([k \in 1..(RunEnd(cs, i, TRUE) - i + 1) |-> DigitOf(cs[i + k - 1])])>> \o LexFrom(cs, RunEnd(cs, i, TRUE) + 1)
      [] i < Len(cs) /\ cs[i] = "=" /\ cs[i + 1] = "=" -> <<Tok("Eq")>> \o LexFrom(cs, i + 2)
      [] i < Len(cs) /\ cs[i] = "!" /\ cs[i + 1] = "=" -> <<Tok("NotEq")>> \o LexFrom(cs, i + 2)
      [] OTHER -> <<IF cs[i] \in Symbols THEN Tok(SymbolKind(cs[i])) ELSE [kind |-> "Illegal", str |-> cs[i]]>> \o LexFrom(cs, i + 1)

Lex(cs) == LexFrom(cs, 1)

DisplayKeyword(w) ==
    CASE w = "let" -> <<"l", "e", "t">>
      [] w = "return" -> <<"r", "e", "t", "u", "r", "n">>
      [] w = "true" -> <<"t", "r", "u", "e">>
      [] w = "false" -> <<"f", "a", "l", "s", "e">>

DisplayPrefixOperator(op) == IF op = "Bang" THEN <<"!">> ELSE <<"-">>

DisplayInfixOperator(op) ==
    CASE op = "Add" -> <<"+">> [] op = "Sub" -> <<"-">> [] op = "Mul" -> <<"*">> [] op = "Div" -> <<"/">>
      [] op = "LT" -> <<"<">> [] op = "GT" -> <<">">> [] op = "Eq" -> <<"=", "=">> [] op = "NotEq" -> <<"!", "=">>

RECURSIVE DisplayExpression(_)
RECURSIVE DisplayList(_)
DisplayList(es) ==
    IF es = <<>> THEN <<>>
    ELSE IF Len(es) = 1 THEN DisplayExpression(es[1])
    ELSE DisplayExpression(es[1]) \o <<",", " ">> \o DisplayList(Tail(es))

DisplayExpression(e) ==
    CASE e.type = "Identifier" -> <<e.name>>
      [] e.type = "Integer" -> [k \in DOMAIN e.int |-> DigitChars[e.int[k] + 1]]
      [] e.type = "Boolean" -> DisplayKeyword(IF e.bool THEN "true" ELSE "false")
      [] e.type = "Prefix" -> <<"(">> \o DisplayPrefixOperator(e.operator) \o DisplayExpression(e.right) \o <<")">>
      [] e.type = "Infix" ->
           <<"(">> \o DisplayExpression(e.left) \o <<" ">> \o DisplayInfixOperator(e.operator) \o <<" ">>
               \o DisplayExpression(e.right) \o <<")">>
      [] e.type = "Array" -> <<"[">> \o DisplayList(e.elements) \o <<"]">>
      [] e.type = "Index" -> <<"(">> \o DisplayExpression(e.left) \o <<"[">> \o DisplayExpression(e.index) \o <<"]", ")">>
      [] e.type = "Call" -> DisplayExpression(e.function) \o <<"(">> \o DisplayList(e.args) \o <<")">>

DisplayStatement(s) ==
    CASE s.type = "Let" ->
           DisplayKeyword("let") \o <<" ", s.identifier, " ", "=", " ">> \o DisplayExpression(s.expression) \o <<";">>
      [] s.type = "Return" -> DisplayKeyword("return") \o <<" ">> \o DisplayExpression(s.expression) \o <<";">>
      [] s.type = "Expression" -> DisplayExpression(s.expression)

RECURSIVE DisplayStatements(_)
DisplayStatements(ss) == IF ss = <<>> THEN <<>> ELSE DisplayStatement(Head(ss)) \o DisplayStatements(Tail(ss))

DisplayProgram(program) == DisplayStatements(program.statements)

InitSegments == Start(SegmentInputs)

SpecSegments == InitSegments /\ [][Next]_vars

InitLoops == Start(LoopInputs)

SpecLoops == InitLoops /\ [][Next]_vars

\* parse is one uninterrupted call: a step that can be taken is taken
FairSpecLoops == SpecLoops /\ WF_vars(Next)

InitIf == Start(IfInputs \cup MissingDelimiterInputs)

SpecIf == InitIf /\ [][Next]_vars

InitHash == Start(HashInputs \cup TrailingCommaInputs \cup MissingColonInputs)

SpecHash == InitHash /\ [][Next]_vars

InitCall == Start(CallInputs)

SpecCall == InitCall /\ [][Next]_vars

InitHashLiteral == Start(HashLiteralInputs)

SpecHashLiteral == InitHashLiteral /\ [][Next]_vars

InitList == Start(ListInputs)

SpecList == InitList /\ [][Next]_vars

InitSemicolon == Start(SemicolonInputs)

SpecSemicolon == InitSemicolon /\ [][Next]_vars

InitBlock == Start(BlockInputs)

SpecBlock == InitBlock /\ [][Next]_vars

InitPrefix == Start(PrefixInputs)

SpecPrefix == InitPrefix /\ [][Next]_vars

InitGroup == Start(GroupInputs)

SpecGroup == InitGroup /\ [][Next]_vars

InitInteger == Start(IntegerInputs)

SpecInteger == InitInteger /\ [][Next]_vars

InitChecks == Start(CheckInputs)

SpecChecks == InitChecks /\ [][Next]_vars

(***************************************************************************)
(* One call of modify.                                                     *)
(***************************************************************************)
InitModify ==
    /\ node \in Nodes
    /\ transform \in Modifiers
    /\ out = [ok |-> FALSE]
    /\ seen = <<>>
    /\ evaluated = Program(<<>>)
    /\ object = ONull
    /\ builtin = "len"
    /\ given = <<>>
    /\ pc = "modify"
    /\ tokens = <<>>
    /\ pos = 1
    /\ statements = <<>>
    /\ errors = <<>>
    /\ result = [ok |-> FALSE, errors |-> <<>>]
    /\ ev = {}
    /\ calls = <<>>

Modified(r) ==
    /\ r.ok
    /\ out' = [ok |-> TRUE, node |-> r.val]
    /\ seen' = r.log

Failed(r) ==
    /\ ~r.ok
    /\ out' = [ok |-> FALSE, err |-> r.err]
    /\ seen' = r.log

ModifyOk ==
    /\ pc = "modify"
    /\ \E r \in {modify(node, transform)} : Modified(r)
    /\ pc' = "done"
    /\ UNCHANGED <<tokens, pos, statements, errors, result, ev, calls, node, transform>>
    /\ UNCHANGED evars

ModifyErr ==
    /\ pc = "modify"
    /\ \E r \in {modify(node, transform)} : Failed(r)
    /\ pc' = "done"
    /\ UNCHANGED <<tokens, pos, statements, errors, result, ev, calls, node, transform>>
    /\ UNCHANGED evars

NextModify == ModifyOk \/ ModifyErr

SpecModify == InitModify /\ [][NextModify]_vars

(***************************************************************************)
(* One call of eval: the loop of eval_statements, entered with res = Null, *)
(* one statement at a time.                                                *)
(***************************************************************************)
Idle ==
    /\ tokens = <<>>
    /\ statements = <<>>
    /\ errors = <<>>
    /\ result = [ok |-> FALSE, errors |-> <<>>]
    /\ ev = {}
    /\ calls = <<>>
    /\ node = NProgram(Program(<<>>))
    /\ transform = "identity"
    /\ out = [ok |-> FALSE]
    /\ seen = <<>>

InitEval ==
    /\ Idle
    /\ evaluated \in EvaluatedPrograms
    /\ object = ONull
    /\ pos = 1
    /\ pc = "for"
    /\ builtin = "len"
    /\ given = <<>>

EvalStatement ==
    /\ pc = "for"
    /\ pos <= Len(evaluated.statements)
    /\ object' = eval_statement(evaluated.statements[pos])
    /\ pos' = pos + 1
    /\ UNCHANGED <<tokens, statements, errors, pc, result, ev, calls, evaluated, builtin, given>>
    /\ UNCHANGED mvars

EvalReturn ==
    /\ pc = "for"
    /\ pos > Len(evaluated.statements)
    /\ pc' = "done"
    /\ UNCHANGED <<tokens, pos, statements, errors, result, ev, calls>>
    /\ UNCHANGED mvars
    /\ UNCHANGED evars

NextEval == EvalStatement \/ EvalReturn

SpecEval == InitEval /\ [][NextEval]_vars

(***************************************************************************)
(* One lookup in the table of the built-in functions, and the call of the  *)
(* function found.                                                         *)
(***************************************************************************)
InitBuiltins ==
    /\ Idle
    /\ builtin \in Names
    /\ given \in ArgumentLists
    /\ object = ONull
    /\ evaluated = Program(<<>>)
    /\ pos = 1
    /\ pc = "get"

CallBuiltin ==
    /\ pc = "get"
    /\ get(builtin) # <<>>
    /\ object' = call_builtin(get(builtin)[1], given)
    /\ pc' = "done"
    /\ UNCHANGED <<tokens, pos, statements, errors, result, ev, calls, evaluated, builtin, given>>
    /\ UNCHANGED mvars

NoBuiltin ==
    /\ pc = "get"
    /\ get(builtin) = <<>>
    /\ pc' = "none"
    /\ UNCHANGED <<tokens, pos, statements, errors, result, ev, calls>>
    /\ UNCHANGED mvars
    /\ UNCHANGED evars

NextBuiltins == CallBuiltin \/ NoBuiltin

SpecBuiltins == InitBuiltins /\ [][NextBuiltins]_vars

(***************************************************************************)
(* The reference grammar of C1: a chain is split at its rightmost operator *)
(* of the lowest level; Product > Sum > LessGreater > Equals.              *)
(***************************************************************************)
RefLevel(kind) ==
    CASE kind \in {"Eq", "NotEq"} -> 1
      [] kind \in {"LT", "GT"} -> 2
      [] kind \in {"Plus", "Minus"} -> 3
      [] kind \in {"Asterisk", "Slash"} -> 4

RefOperator(kind) ==
    CASE kind = "Plus" -> "Add" [] kind = "Minus" -> "Sub" [] kind = "Asterisk" -> "Mul" [] kind = "Slash" -> "Div"
      [] kind = "LT" -> "LT" [] kind = "GT" -> "GT" [] kind = "Eq" -> "Eq" [] kind = "NotEq" -> "NotEq"

RefOperand(tok) == IF tok.kind = "Identifier" THEN EIdentifier(tok.name) ELSE EInteger(tok.digits)

RefSplit(toks) ==
    CHOOSE k \in DOMAIN toks :
        /\ k % 2 = 0
        /\ \A j \in DOMAIN toks : j % 2 = 0 =>
               \/ RefLevel(toks[j].kind) > RefLevel(toks[k].kind)
               \/ (RefLevel(toks[j].kind) = RefLevel(toks[k].kind) /\ j <= k)

RECURSIVE RefTree(_)
RefTree(toks) ==
    IF Len(toks) = 1 THEN RefOperand(toks[1])
    ELSE EInfix(RefTree(SubSeq(toks, 1, RefSplit(toks) - 1)),
                RefOperator(toks[RefSplit(toks)].kind),
                RefTree(SubSeq(toks, RefSplit(toks) + 1, Len(toks))))

\* C1: parse of a chain of identifiers and literals joined by binary operators
\* is the one expression statement whose tree the reference precedence grammar
\* gives: higher precedence binds tighter, equal precedence nests to the left.
C1_ChainParsesAsReference ==
    (pc = "done" /\ IsChain(tokens)) =>
        /\ result.ok
        /\ result.program = Program(<<SExpression(RefTree(tokens))>>)

C1_Witness ==
    /\ pc = "done"
    /\ tokens = Chain(<<"Minus", "Asterisk", "Minus">>)
    /\ result.ok
    /\ result.program.statements[1].expression.left.operator = "Sub"
    /\ result.program.statements[1].expression.left.right.operator = "Mul"

FailedCalls == SelectSeq(calls, LAMBDA call : ~call.ok)

\* C3: parse fails exactly when a parse_statement call of the top-level loop
\* failed; the failure carries the message of every failed call in order and no
\* Program; otherwise parse returns the Program of every parsed statement in
\* source order.
C3_FailureIffACallFailed ==
    pc = "done" =>
        /\ (~result.ok) <=> (FailedCalls # <<>>)
        /\ ~result.ok =>
              /\ DOMAIN result = {"ok", "errors"}
              /\ result.errors = [i \in 1..Len(FailedCalls) |-> FailedCalls[i].err]
        /\ result.ok =>
              /\ DOMAIN result = {"ok", "program"}
              /\ result.program = Program([i \in 1..Len(calls) |-> calls[i].stmt])
              /\ \A i \in 1..(Len(calls) - 1) : calls[i].at < calls[i + 1].at

C3_Witness ==
    /\ pc = "done"
    /\ ~result.ok
    /\ Len(calls) = 3
    /\ ~calls[1].ok /\ calls[2].ok /\ ~calls[3].ok
    /\ calls[1].err # calls[3].err
    /\ result.errors = <<calls[1].err, calls[3].err>>

RECURSIVE Segments(_)
Segments(toks) ==
    IF toks = <<>> THEN <<>>
    ELSE IF \E i \in DOMAIN toks : toks[i].kind = "Semicolon"
    THEN <<SubSeq(toks, 1, CHOOSE i \in DOMAIN toks : toks[i].kind = "Semicolon" /\ \A j \in 1..(i - 1) : toks[j].kind # "Semicolon")>>
         \o Segments(SubSeq(toks, 1 + (CHOOSE i \in DOMAIN toks : toks[i].kind = "Semicolon" /\ \A j \in 1..(i - 1) : toks[j].kind # "Semicolon"), Len(toks)))
    ELSE <<toks>>

Malformed(toks) == {i \in DOMAIN Segments(toks) : ~parse(Segments(toks)[i]).ok}

RECURSIVE ErrorsOfEach(_)
ErrorsOfEach(segs) ==
    IF segs = <<>> THEN <<>>
    ELSE (IF parse(Head(segs)).ok THEN <<>> ELSE parse(Head(segs)).errors) \o ErrorsOfEach(Tail(segs))

\* C4 as stated: a stream of semicolon-terminated statements of which k are
\* malformed gives exactly k error messages.
C4_OneMessagePerMalformedStatement ==
    pc = "done" => Len(errors) = Cardinality(Malformed(tokens))

\* C4 amended: the error list is, in order, what each statement gives when it
\* is parsed alone, one message per failed parse_statement call: at least one
\* per malformed statement, and more when the resynchronization starts a
\* statement inside the malformed one.
C4_MessagesOfEachStatement ==
    pc = "done" =>
        /\ errors = ErrorsOfEach(Segments(tokens))
        /\ Len(errors) >= Cardinality(Malformed(tokens))
        /\ Len(errors) = Len(FailedCalls)
        /\ (~result.ok) <=> (Malformed(tokens) # {})
        /\ ~result.ok => result.errors = errors

C4_Witness ==
    /\ pc = "done"
    /\ tokens = <<Tok("Plus"), Tok("Semicolon"), Tok("Let"), a, one, Tok("Semicolon")>>
    /\ Cardinality(Malformed(tokens)) = 2
    /\ Len(result.errors) = 3

LoopNames == {"parse", "block", "infix", "hash", "list"}

LoopsAdvance ==
    \A e \in ev : e.e = "loop" => e.from < e.to /\ e.to <= Len(tokens) + 1

\* C5: every completed iteration of each of the five loops of the parser
\* leaves the cursor further on than it found it, and parse returns with the
\* cursor at the end of the input, after at most one top-level iteration per
\* token.
C5_EveryLoopAdvancesAndParseReturns ==
    /\ [](LoopsAdvance /\ Len(calls) <= Len(tokens))
    /\ <>(pc = "done" /\ pos = Len(tokens) + 1)

C5_Witness ==
    /\ pc = "done"
    /\ \A l \in LoopNames : \E e \in ev : e.e = "loop" /\ e.loop = l
    /\ \E e \in ev : e.e = "loop" /\ e.loop = "parse" /\ e.to - e.from > 1
    /\ pos = Len(tokens) + 1

\* C6: an if-expression from which the opening or closing parenthesis of the
\* condition or the opening or closing brace of a block is missing is rejected
\* with a parse error.
C6_MissingDelimiterRejected ==
    pc = "done" /\ tokens \in MissingDelimiterInputs => ~result.ok

\* The if-expressions with a missing delimiter that parse accepts are those
\* whose last block is still open when the input ends.
C6_OnlyOpenLastBlockAccepted ==
    pc = "done" /\ tokens \in MissingDelimiterInputs /\ result.ok =>
        \E toks \in IfInputs : tokens = SubSeq(toks, 1, Len(toks) - 1)

\* C7: a hash literal with a comma before its closing brace is rejected with a
\* parse error.
C7_TrailingCommaRejected ==
    pc = "done" /\ tokens \in TrailingCommaInputs => ~result.ok

\* A hash literal with a trailing comma parses to the hash of the same literal
\* without it.
C7_TrailingCommaIgnored ==
    pc = "done" /\ tokens \in TrailingCommaInputs =>
        result = parse(Delete(tokens, Len(tokens) - 1))

\* C8: modify with the modifier that returns every node as it is returns a
\* node equal to its input, for programs, statements and expressions.
C8_IdentityReturnsInput ==
    pc = "done" /\ transform = "identity" => out.ok /\ out.node = node

C8_Witness ==
    /\ pc = "done"
    /\ transform = "identity"
    /\ node.node = "Expression"
    /\ node.expression.type = "Hash"
    /\ Len(node.expression.pairs) = 2
    /\ node.expression.pairs[1][2].type = "If"
    /\ node.expression.pairs[1][2].alternative # <<>>
    /\ out = [ok |-> TRUE, node |-> node]

LeafVariants == {"Identifier", "Integer", "Boolean", "String", "Call", "Quote", "Unquote", "Macro"}

\* C9: every node the modifier is called with is an Expression node of
\* variant Identifier, Integer, Boolean, String, Call, Quote, Unquote or Macro;
\* it is never called with a Program, a Statement, or an Array, Hash, Prefix,
\* Infix, If, Function or Index expression.
C9_ModifierGivenLeavesOnly ==
    \A i \in DOMAIN seen :
        seen[i].node = "Expression" /\ seen[i].expression.type \in LeafVariants

C9_Witness ==
    /\ pc = "done"
    /\ node.node = "Program"
    /\ Len(node.program.statements) = 2
    /\ node.program.statements[1].type = "Let"
    /\ node.program.statements[1].expression.type = "Infix"
    /\ Len(seen) = 3
    /\ out.ok

RECURSIVE Frontier(_)
RECURSIVE FrontierOfAll(_)
RECURSIVE FrontierOfStatements(_)
\* the maximal sub-expressions of the variants modify does not rebuild, in
\* traversal order
Frontier(expr) ==
    CASE expr.type = "Array" -> FrontierOfAll(expr.elements)
      [] expr.type = "Hash" -> FrontierOfAll([i \in 1..(2 * Len(expr.pairs)) |-> expr.pairs[(i + 1) \div 2][2 - (i % 2)]])
      [] expr.type = "Prefix" -> Frontier(expr.right)
      [] expr.type = "Infix" -> Frontier(expr.left) \o Frontier(expr.right)
      [] expr.type = "If" ->
           Frontier(expr.condition) \o FrontierOfStatements(expr.consequence.statements)
           \o (IF expr.alternative = <<>> THEN <<>> ELSE FrontierOfStatements(expr.alternative[1].statements))
      [] expr.type = "Function" -> FrontierOfStatements(expr.body.statements)
      [] expr.type = "Index" -> Frontier(expr.left) \o Frontier(expr.index)
      [] OTHER -> <<NExpression(expr)>>

FrontierOfAll(exprs) ==
    IF exprs = <<>> THEN <<>> ELSE Frontier(Head(exprs)) \o FrontierOfAll(Tail(exprs))

FrontierOfStatements(stmts) ==
    IF stmts = <<>> THEN <<>>
    ELSE (IF Head(stmts).type = "Block"
          THEN FrontierOfStatements(Head(stmts).block.statements)
          ELSE Frontier(Head(stmts).expression))
         \o FrontierOfStatements(Tail(stmts))

FrontierOfNode(n) ==
    CASE n.node = "Program" -> FrontierOfStatements(n.program.statements)
      [] n.node = "Statement" -> FrontierOfStatements(<<n.statement>>)
      [] n.node = "Expression" -> Frontier(n.expression)

OpaqueVariants == {"Call", "Quote", "Unquote", "Macro"}

\* C10: a Call, Quote, Unquote or Macro expression is handed whole to the
\* modifier, once for each place it stands in, and the modifier is not called
\* on anything inside it: the calls are exactly the maximal leaf and opaque
\* sub-expressions of the input, in order (up to the first failure); and with
\* turn_one_into_two such an expression comes back as it was.
C10_OpaqueVariantsPassedWhole ==
    pc = "done" =>
        /\ Len(seen) <= Len(FrontierOfNode(node))
        /\ seen = SubSeq(FrontierOfNode(node), 1, Len(seen))
        /\ out.ok => seen = FrontierOfNode(node)
        /\ (node.node = "Expression" /\ node.expression.type \in OpaqueVariants) =>
              /\ seen = <<node>>
              /\ transform = "turn_one_into_two" => out = [ok |-> TRUE, node |-> node]

C10_Witness ==
    /\ pc = "done"
    /\ transform = "turn_one_into_two"
    /\ node = NExpression(ECall(EIdentifier("f"), <<EInteger(<<1>>)>>))
    /\ seen = <<node>>
    /\ out = [ok |-> TRUE, node |-> node]

C10_WitnessNested ==
    /\ pc = "done"
    /\ transform = "turn_one_into_two"
    /\ node = NExpression(EInfix(ECall(EIdentifier("f"), <<EInteger(<<1>>)>>), "Add", EInteger(<<1>>)))
    /\ seen = <<NExpression(ECall(EIdentifier("f"), <<EInteger(<<1>>)>>)), NExpression(EInteger(<<1>>))>>
    /\ out.node = NExpression(EInfix(ECall(EIdentifier("f"), <<EInteger(<<1>>)>>), "Add", EInteger(<<2>>)))

\* the entries of a sequence of pairs that no later entry has the key of
LastOfEachKey(pairs) ==
    SelectSeq([i \in DOMAIN pairs |-> <<pairs[i], \A j \in (i + 1)..Len(pairs) : pairs[j][1] # pairs[i][1]>>],
              LAMBDA p : p[2])

RECURSIVE OneToTwo(_, _)
RECURSIVE OneToTwoInStatement(_, _)
\* expr with every Integer(1) outside Call, Quote, Unquote and Macro replaced
\* by Integer(2); with lastwins, a hash keeps, of the entries whose keys have
\* become equal, the last one
OneToTwo(expr, lastwins) ==
    CASE expr = EInteger(<<1>>) -> EInteger(<<2>>)
      [] expr.type = "Array" -> EArray([i \in DOMAIN expr.elements |-> OneToTwo(expr.elements[i], lastwins)])
      [] expr.type = "Hash" ->
           IF lastwins
           THEN EHash([i \in DOMAIN LastOfEachKey([j \in DOMAIN expr.pairs |-> <<OneToTwo(expr.pairs[j][1], lastwins), OneToTwo(expr.pairs[j][2], lastwins)>>])
                         |-> LastOfEachKey([j \in DOMAIN expr.pairs |-> <<OneToTwo(expr.pairs[j][1], lastwins), OneToTwo(expr.pairs[j][2], lastwins)>>])[i][1]])
           ELSE EHash([j \in DOMAIN expr.pairs |-> <<OneToTwo(expr.pairs[j][1], lastwins), OneToTwo(expr.pairs[j][2], lastwins)>>])
      [] expr.type = "Prefix" -> EPrefix(expr.operator, OneToTwo(expr.right, lastwins))
      [] expr.type = "Infix" -> EInfix(OneToTwo(expr.left, lastwins), expr.operator, OneToTwo(expr.right, lastwins))
      [] expr.type = "If" ->
           EIf(OneToTwo(expr.condition, lastwins),
               BlockStatement([i \in DOMAIN expr.consequence.statements |-> OneToTwoInStatement(expr.consequence.statements[i], lastwins)]),
               [k \in DOMAIN expr.alternative |->
                   BlockStatement([i \in DOMAIN expr.alternative[k].statements |-> OneToTwoInStatement(expr.alternative[k].statements[i], lastwins)])])
      [] expr.type = "Function" ->
           EFunction(expr.params, BlockStatement([i \in DOMAIN expr.body.statements |-> OneToTwoInStatement(expr.body.statements[i], lastwins)]))
      [] expr.type = "Index" -> EIndex(OneToTwo(expr.left, lastwins), OneToTwo(expr.index, lastwins))
      [] OTHER -> expr

OneToTwoInStatement(stmt, lastwins) ==
    CASE stmt.type = "Let" -> SLet(stmt.identifier, OneToTwo(stmt.expression, lastwins))
      [] stmt.type = "Return" -> SReturn(OneToTwo(stmt.expression, lastwins))
      [] stmt.type = "Expression" -> SExpression(OneToTwo(stmt.expression, lastwins))
      [] stmt.type = "Block" ->
           SBlock(BlockStatement([i \in DOMAIN stmt.block.statements |-> OneToTwoInStatement(stmt.block.statements[i], lastwins)]))

OneToTwoInNode(n, lastwins) ==
    CASE n.node = "Program" ->
           NProgram(Program([i \in DOMAIN n.program.statements |-> OneToTwoInStatement(n.program.statements[i], lastwins)]))
      [] n.node = "Statement" -> NStatement(OneToTwoInStatement(n.statement, lastwins))
      [] n.node = "Expression" -> NExpression(OneToTwo(n.expression, lastwins))

\* C11 as stated: with turn_one_into_two the result is the input with every
\* Integer(1) outside the opaque variants replaced by Integer(2), hash keys
\* included.
C11_EveryOneReplaced ==
    pc = "done" /\ transform = "turn_one_into_two" =>
        out.ok /\ out.node = OneToTwoInNode(node, FALSE)

\* C11 amended: with turn_one_into_two the result is the input with every
\* Integer(1) outside the opaque variants replaced by Integer(2), where a hash
\* in which the replacement has made two keys equal keeps one entry for that
\* key, the one of the greater input key; with no such hash it is the input
\* with every such Integer(1) replaced.
C11_EveryOneReplacedLastKeyWins ==
    pc = "done" /\ transform = "turn_one_into_two" =>
        /\ out.ok
        /\ out.node = OneToTwoInNode(node, TRUE)
        /\ OneToTwoInNode(node, TRUE) = OneToTwoInNode(node, FALSE) => out.node = OneToTwoInNode(node, FALSE)

C11_Witness ==
    /\ pc = "done"
    /\ transform = "turn_one_into_two"
    /\ node = NExpression(EIndex(EIdentifier("a"),
                 EIf(EIdentifier("a"), BlockOf(<<SReturn(EInteger(<<1>>))>>),
                     <<BlockOf(<<SLet("x", EInteger(<<1>>)), SExpression(EInteger(<<1>>))>>)>>)))
    /\ out.node = NExpression(EIndex(EIdentifier("a"),
                 EIf(EIdentifier("a"), BlockOf(<<SReturn(EInteger(<<2>>))>>),
                     <<BlockOf(<<SLet("x", EInteger(<<2>>)), SExpression(EInteger(<<2>>))>>)>>)))

\* a hash whose keys 1 and 2 become one key
C11_WitnessEqualKeys ==
    /\ pc = "done"
    /\ transform = "turn_one_into_two"
    /\ node = NExpression(EHash(<<<<EInteger(<<1>>), EIdentifier("a")>>, <<EInteger(<<2>>), EIdentifier("b")>>>>))
    /\ out.node = NExpression(EHash(<<<<EInteger(<<2>>), EIdentifier("b")>>>>))

\* the places, in traversal order, where the modifier returns a node that is
\* not an Expression
Rejected(n, T) ==
    {i \in DOMAIN FrontierOfNode(n) : modifier(T, FrontierOfNode(n)[i]).node # "Expression"}

FirstOf(S) == CHOOSE i \in S : \A j \in S : i <= j

\* C12: when the modifier returns a Program or Statement node for a visited
\* expression, modify returns an error and no node; the error is the one of
\* the first such return, and the modifier is called on nothing that comes
\* after it; when it never does, modify succeeds.
C12_FirstNonExpressionFails ==
    pc = "done" =>
        /\ Rejected(node, transform) = {} => out.ok
        /\ Rejected(node, transform) # {} =>
              /\ DOMAIN out = {"ok", "err"}
              /\ ~out.ok
              /\ seen = SubSeq(FrontierOfNode(node), 1, FirstOf(Rejected(node, transform)))
              /\ out.err = expression(modifier(transform, seen[Len(seen)]), seen).err

C12_Witness ==
    /\ pc = "done"
    /\ transform = "statement_for_two"
    /\ node.node = "Program"
    /\ Cardinality(Rejected(node, transform)) = 1
    /\ Len(FrontierOfNode(node)) > Len(seen)
    /\ Len(seen) = 2
    /\ seen[2] = NExpression(EInteger(<<2>>))
    /\ out = [ok |-> FALSE, err |-> <<"not an expression", "Statement">>]

C12_WitnessProgramReturned ==
    /\ pc = "done"
    /\ transform = "program_for_b"
    /\ Cardinality(Rejected(node, transform)) = 2
    /\ Len(FrontierOfNode(node)) > Len(seen)
    /\ out = [ok |-> FALSE, err |-> <<"not an expression", "Program">>]

\* the expression a token sequence parses to when it is one expression statement
ExpressionOf(toks) == parse(toks).program.statements[1].expression

ContextStatement(context, expr) ==
    CASE context = "expression" -> SExpression(expr)
      [] context = "let" -> SLet("d", expr)
      [] context = "return" -> SReturn(expr)

\* C13: a `(` in infix position makes a Call when the expression to its left
\* is an Identifier or a Function literal; for every other variant the
\* enclosing statement fails with the error of parse_call_expression, parse
\* fails, and no statement that was parsed holds a Call.
C13_CalleeIsIdentifierOrFunction ==
    pc = "done" =>
        \A x \in Contexts \X Callees \X Arguments :
            tokens = CallOf(x[1], x[2], x[3]) =>
                IF ExpressionOf(x[2]).type \in {"Identifier", "Function"}
                THEN /\ result.ok
                     /\ result.program.statements =
                           <<ContextStatement(x[1], ECall(ExpressionOf(x[2]),
                                ExpressionOf(<<Tok("LBracket")>> \o x[3] \o <<Tok("RBracket")>>).elements))>>
                ELSE /\ ~result.ok
                     /\ ~calls[1].ok
                     /\ result.errors[1] = <<"could not parse", ExpressionOf(x[2]), "call expression function">>
                     /\ \A i \in DOMAIN calls : calls[i].ok =>
                           calls[i].stmt.type = "Expression" /\ calls[i].stmt.expression.type # "Call"

C13_Witness ==
    /\ pc = "done"
    /\ tokens = CallOf("let", <<a, Tok("LBracket"), one, Tok("RBracket")>>, <<b>>)
    /\ ~result.ok
    /\ result.errors[1] = <<"could not parse", EIndex(EIdentifier("a"), EInteger(<<1>>)), "call expression function">>

C13_WitnessFunction ==
    /\ pc = "done"
    /\ tokens = CallOf("expression", <<Tok("Function"), Tok("LParen"), c, Tok("RParen"), Tok("LBrace"), c, Tok("RBrace")>>, <<b>>)
    /\ result.ok
    /\ result.program.statements[1].expression.type = "Call"
    /\ result.program.statements[1].expression.function.type = "Function"

RECURSIVE SplitAt(_, _)
\* the pieces of toks between the tokens of the given kind
SplitAt(toks, kind) ==
    IF \E i \in DOMAIN toks : toks[i].kind = kind
    THEN <<SubSeq(toks, 1, (CHOOSE i \in DOMAIN toks : toks[i].kind = kind /\ \A j \in 1..(i - 1) : toks[j].kind # kind) - 1)>>
         \o SplitAt(SubSeq(toks, 1 + (CHOOSE i \in DOMAIN toks : toks[i].kind = kind /\ \A j \in 1..(i - 1) : toks[j].kind # kind), Len(toks)), kind)
    ELSE <<toks>>

\* the entry `k : v` as a pair of expressions
EntryOf(toks) == <<ExpressionOf(<<toks[1]>>), ExpressionOf(SubSeq(toks, 3, Len(toks)))>>

\* the entries of a hash literal `{ k : v , ... }`, as pairs of expressions
EntriesOf(toks) ==
    IF Len(toks) = 2 THEN <<>>
    ELSE CHOOSE entries \in {[i \in DOMAIN pieces |-> EntryOf(pieces[i])] :
                             pieces \in {SplitAt(SubSeq(toks, 2, Len(toks) - 1), "Comma")}} : TRUE

KeysOf(pairs) == {pairs[i][1] : i \in DOMAIN pairs}

\* pairs is the ordered mapping of the entries: one pair for each distinct
\* key, in ascending key order, holding the value of the key's last entry
IsMappingOf(pairs, entries) ==
    /\ Len(pairs) = Cardinality(KeysOf(entries))
    /\ KeysOf(pairs) = KeysOf(entries)
    /\ \A i \in DOMAIN entries :
          (\A j \in (i + 1)..Len(entries) : entries[j][1] # entries[i][1]) =>
              \E k \in DOMAIN pairs : pairs[k] = entries[i]
    /\ \A k \in 1..(Len(pairs) - 1) : ExprCmp(pairs[k][1], pairs[k + 1][1]) < 0

\* C14: a hash literal parses to an ordered mapping with one entry for each
\* distinct key of the literal, in ascending key order, each key mapped to
\* the value of its last occurrence; `{}` gives the empty mapping.
C14_HashIsMappingOfLastValues ==
    pc = "done" =>
        /\ tokens \in HashLiterals => result.ok
        /\ result.ok =>
              /\ Len(result.program.statements) = 1
              /\ result.program.statements[1].type = "Expression"
              /\ result.program.statements[1].expression.type = "Hash"
              /\ \A entries \in {EntriesOf(tokens)} :
                    IsMappingOf(result.program.statements[1].expression.pairs, entries)

C14_Witness ==
    /\ pc = "done"
    /\ tokens = <<Tok("LBrace"), Str("s"), Tok("Colon"), one, Tok("Comma"), a, Tok("Colon"), b, Tok("Comma"),
                  Str("s"), Tok("Colon"), b, Tok("RBrace")>>
    /\ result.ok
    /\ result.program.statements[1].expression.pairs =
          <<<<EIdentifier("a"), EIdentifier("b")>>, <<EString("s"), EIdentifier("b")>>>>

C14_WitnessEmpty ==
    /\ pc = "done"
    /\ tokens = <<Tok("LBrace"), Tok("RBrace")>>
    /\ result = [ok |-> TRUE, program |-> Program(<<SExpression(EHash(<<>>))>>)]

C14_WitnessDistinct ==
    /\ pc = "done"
    /\ tokens \in HashLiterals
    /\ result.ok
    /\ Len(result.program.statements[1].expression.pairs) = MaxEntries

\* the expression a list position holds for the given elements
ListExpression(position, elements) ==
    CASE position = "array" -> EArray(elements)
      [] position = "call" -> ECall(EIdentifier("c"), elements)
      [] position = "function" -> EFunction(elements, BlockStatement(<<>>))
      [] position = "macro" -> EMacro(elements, BlockStatement(<<>>))

ListReturns == {e \in ev : e.e = "ret" /\ e.fn = "parse_comma_separated_list"}

\* C15: an empty list is accepted in each list position, `c()` as a Call
\* with no argument, `fn() {}` and `macro() {}` with no parameter, `[]` as an
\* Array with no element, and the list function returns one token further on,
\* with the list's closing token as the current token.
C15_EmptyListInEveryPosition ==
    pc = "done" =>
        \A position \in ListPositions :
            tokens = ListOf(position, <<>>) =>
                /\ result = [ok |-> TRUE, program |-> Program(<<SExpression(ListExpression(position, <<>>))>>)]
                /\ ListReturns = {RetEv("parse_comma_separated_list", Len(ListOpen(position)), Len(ListOpen(position)) + 1)}
                /\ tokens[Len(ListOpen(position)) + 1] = ListClose(position)[1]

C15_Witness ==
    /\ pc = "done"
    /\ tokens = <<Tok("Macro"), Tok("LParen"), Tok("RParen"), Tok("LBrace"), Tok("RBrace")>>
    /\ result = [ok |-> TRUE, program |-> Program(<<SExpression(EMacro(<<>>, BlockStatement(<<>>)))>>)]
    /\ RetEv("parse_comma_separated_list", 2, 3) \in ev

C15_WitnessCall ==
    /\ pc = "done"
    /\ tokens = <<c, Tok("LParen"), Tok("RParen")>>
    /\ result = [ok |-> TRUE, program |-> Program(<<SExpression(ECall(EIdentifier("c"), <<>>))>>)]

\* items is elements separated by single commas
WellFormedList(items) ==
    /\ Len(items) % 2 = 1
    /\ \A i \in DOMAIN items : (items[i].kind = "Comma") <=> (i % 2 = 0)

\* the element a token of a list is, in the position
ElementOf(position, tok) ==
    IF position \in {"array", "call"} THEN ExpressionOf(<<tok>>) ELSE tok.name

ElementsOf(position, items) ==
    [i \in 1..((Len(items) + 1) \div 2) |-> ElementOf(position, items[2 * i - 1])]

\* C16: a non-empty list in an array literal, an argument list or a
\* parameter list is accepted exactly when it is elements separated by single
\* commas with the closing token right after the last element, and then holds
\* those elements in order; with a trailing comma, two commas in a row, a
\* leading comma or two elements with no comma between them the enclosing
\* statement fails.
C16_ListIsCommaSeparated ==
    pc = "done" =>
        \A position \in ListPositions :
            \A items \in {SubSeq(tokens, Len(ListOpen(position)) + 1, Len(tokens) - Len(ListClose(position)))} :
                (items # <<>> /\ tokens = ListOf(position, items)) =>
                    IF WellFormedList(items)
                    THEN result = [ok |-> TRUE,
                                   program |-> Program(<<SExpression(ListExpression(position, ElementsOf(position, items)))>>)]
                    ELSE ~result.ok /\ ~calls[1].ok /\ calls[1].at = 1

C16_Witness ==
    /\ pc = "done"
    /\ tokens = <<c, Tok("LParen"), a, Tok("Comma"), one, Tok("Comma"), Tok("RParen")>>
    /\ ~result.ok
    /\ ~calls[1].ok

C16_WitnessAccepted ==
    /\ pc = "done"
    /\ tokens = <<Tok("Function"), Tok("LParen"), a, Tok("Comma"), b, Tok("RParen"), Tok("LBrace"), Tok("RBrace")>>
    /\ result = [ok |-> TRUE, program |-> Program(<<SExpression(EFunction(<<"a", "b">>, BlockStatement(<<>>)))>>)]

C16_WitnessNoComma ==
    /\ pc = "done"
    /\ tokens = <<Tok("LBracket"), a, one, Tok("RBracket")>>
    /\ ~result.ok

\* toks is S followed by one semicolon, S not ending with a semicolon
EndsWithOneSemicolon(toks) ==
    /\ Len(toks) >= 2
    /\ toks[Len(toks)].kind = "Semicolon"
    /\ toks[Len(toks) - 1].kind # "Semicolon"

C17_WitnessReturn ==
    /\ pc = "done"
    /\ tokens = <<Tok("Return"), a, Tok("Semicolon")>>
    /\ result = [ok |-> TRUE, program |-> Program(<<SReturn(EIdentifier("a"))>>)]
    /\ calls[1].end = 3

C17_WitnessSecondSemicolon ==
    /\ pc = "done"
    /\ tokens = <<a, Tok("Semicolon"), Tok("Semicolon")>>
    /\ ~result.ok

\* the statement sequences at the top of a node that modify rebuilds: those
\* of a Program, of a Block statement, of the branches of an If and of the
\* body of a Function
Rebuilt(n) ==
    CASE n.node = "Program" -> <<n.program.statements>>
      [] n.node = "Statement" ->
           IF n.statement.type = "Block" THEN <<n.statement.block.statements>> ELSE <<>>
      [] n.node = "Expression" ->
           CASE n.expression.type = "If" ->
                  <<n.expression.consequence.statements>>
                     \o [i \in DOMAIN n.expression.alternative |-> n.expression.alternative[i].statements]
             [] n.expression.type = "Function" -> <<n.expression.body.statements>>
             [] OTHER -> <<>>

\* after is before with each statement rewritten in place
RewrittenInOrder(before, after, T) ==
    /\ Len(after) = Len(before)
    /\ \A i \in DOMAIN before :
          /\ after[i].type = before[i].type
          /\ \A r \in {modify_statement(before[i], T, <<>>)} : r.ok /\ after[i] = r.val

\* C18: when modify succeeds on a Program, a Block statement, an If or a
\* Function, every statement sequence of the input (the program's, the
\* block's, each branch's, the body's) comes back with the same number of
\* statements, the i-th being the rewrite of the input's i-th statement and
\* of its variant.
C18_StatementsKeepNumberAndOrder ==
    (pc = "done" /\ out.ok) =>
        /\ out.node.node = node.node
        /\ Len(Rebuilt(out.node)) = Len(Rebuilt(node))
        /\ \A k \in DOMAIN Rebuilt(node) :
              RewrittenInOrder(Rebuilt(node)[k], Rebuilt(out.node)[k], transform)

C18_Witness ==
    /\ pc = "done"
    /\ out.ok
    /\ transform = "turn_one_into_two"
    /\ node = NProgram(Program(<<SLet("x", EInfix(EInteger(<<1>>), "Add", EInteger(<<1>>))), SExpression(EInteger(<<1>>))>>))
    /\ out.node = NProgram(Program(<<SLet("x", EInfix(EInteger(<<2>>), "Add", EInteger(<<2>>))), SExpression(EInteger(<<2>>))>>))

C18_WitnessBranches ==
    /\ pc = "done"
    /\ out.ok
    /\ transform = "turn_one_into_two"
    /\ node.node = "Expression"
    /\ node.expression.type = "If"
    /\ Len(Rebuilt(node)) = 2
    /\ Len(Rebuilt(node)[2]) = 2
    /\ Rebuilt(out.node)[2][1].type = "Let"
    /\ Rebuilt(out.node)[2][2] = SExpression(EInteger(<<2>>))
    /\ Rebuilt(out.node)[1] = <<SReturn(EInteger(<<2>>))>>

C18_WitnessBlock ==
    /\ pc = "done"
    /\ out.ok
    /\ transform = "turn_one_into_two"
    /\ node.node = "Statement"
    /\ node.statement.type = "Block"
    /\ out.node.statement.type = "Block"
    /\ out.node.statement.block.statements[2] = SLet("y", EInteger(<<2>>))

\* C19: eval returns the value of the last statement of the program alone:
\* Integer(n) or Boolean(b) when that statement is an expression statement
\* holding the literal n or b, Null when it is any other statement, and Null
\* for the program with no statement.
C19_EvalIsLastStatement ==
    pc = "done" =>
        \A n \in {Len(evaluated.statements)} :
            IF n = 0 THEN object = ONull
            ELSE IF evaluated.statements[n].type = "Expression"
                    /\ evaluated.statements[n].expression.type = "Integer"
                 THEN object = [object |-> "Integer", int |-> evaluated.statements[n].expression.int]
            ELSE IF evaluated.statements[n].type = "Expression"
                    /\ evaluated.statements[n].expression.type = "Boolean"
                 THEN object = [object |-> "Boolean", bool |-> evaluated.statements[n].expression.bool]
            ELSE object = ONull

C19_Witness ==
    /\ pc = "done"
    /\ evaluated = Program(<<SExpression(EInteger(<<5>>)), SExpression(EBoolean(FALSE))>>)
    /\ object = OBoolean(FALSE)

C19_WitnessNull ==
    /\ pc = "done"
    /\ evaluated = Program(<<SExpression(EInteger(<<5>>)), SReturn(EInteger(<<5>>))>>)
    /\ object = ONull

C19_WitnessEmpty ==
    /\ pc = "done"
    /\ evaluated = Program(<<>>)
    /\ object = ONull

\* C20: called with one Array, len returns the Integer of the number of its
\* elements, first its element at index 0 and last its element at the
\* highest index, first and last returning Null for the empty array; called
\* with no argument or with more than one, each returns an Error.
C20_BuiltinsOnOneArray ==
    (pc = "done" /\ builtin \in {"len", "first", "last"}) =>
        /\ Len(given) # 1 => object.object = "Error"
        /\ (Len(given) = 1 /\ given[1].object = "Array") =>
              \A array \in {given[1].elements} :
                  /\ builtin = "len" => (Len(array) < 10 /\ object = [object |-> "Integer", int |-> <<Len(array)>>])
                  /\ builtin = "first" => object = IF array = <<>> THEN ONull ELSE array[1]
                  /\ builtin = "last" => object = IF array = <<>> THEN ONull ELSE array[Len(array)]

C20_Witness ==
    /\ pc = "done"
    /\ builtin = "last"
    /\ given = <<OArray(<<OInteger(<<2>>), OInteger(<<4>>)>>)>>
    /\ object = OInteger(<<4>>)

C20_WitnessEmpty ==
    /\ pc = "done"
    /\ builtin = "first"
    /\ given = <<OArray(<<>>)>>
    /\ object = ONull

C20_WitnessLen ==
    /\ pc = "done"
    /\ builtin = "len"
    /\ given = <<OArray(<<OString(<<"a">>), ONull, OArray(<<>>)>>)>>
    /\ object = OInteger(<<3>>)

C20_WitnessArguments ==
    /\ pc = "done"
    /\ builtin \in {"len", "first", "last"}
    /\ Len(given) = 2
    /\ given[1].object = "Array"
    /\ object.object = "Error"

\* C21: after a parse_statement call fails with the cursor on token k, the
\* loop advances one token: the next call starts at token k + 1, whatever
\* that token is, and there is such a call whenever token k + 1 exists, so
\* the rest of the malformed statement is parsed as statements of its own.
C21_ResumeOneTokenAfterFailure ==
    \A i \in DOMAIN calls :
        ~calls[i].ok =>
            /\ i < Len(calls) => calls[i + 1].at = calls[i].end + 1
            /\ i = Len(calls) => pos = IF calls[i].end <= Len(tokens) THEN calls[i].end + 1 ELSE calls[i].end
            /\ (pc = "done" /\ calls[i].end < Len(tokens)) => i < Len(calls)

C21_Witness ==
    /\ pc = "done"
    /\ tokens = <<Tok("Let"), a, one, Tok("Semicolon")>>
    /\ Len(calls) = 2
    /\ ~calls[1].ok
    /\ calls[1].end = 2
    /\ calls[2].at = 3
    /\ calls[2].ok
    /\ calls[2].stmt = SExpression(EInteger(<<1>>))
    /\ Len(result.errors) = 1

C21_WitnessNotAtSemicolon ==
    /\ Len(calls) >= 2
    /\ ~calls[1].ok
    /\ tokens[calls[2].at].kind \notin {"Semicolon", "Let", "Return"}
    /\ tokens[calls[2].at - 1].kind # "Semicolon"

\* the head of the tokens of a block input
BlockHeadOf(toks) ==
    CHOOSE head \in BlockHeads : Len(head) <= Len(toks) /\ SubSeq(toks, 1, Len(head)) = head

\* the outcome of the first statement that fails among the statements that
\* follow one another from token p up to the closing brace; ok when none fails
RECURSIVE FirstFailureFrom(_, _)
FirstFailureFrom(toks, p) ==
    IF p > Len(toks) \/ toks[p].kind = "RBrace" THEN [ok |-> TRUE]
    ELSE CHOOSE y \in {IF r.ok THEN FirstFailureFrom(toks, r.st.pos + 1) ELSE r :
                        r \in {parse_statement(toks, [pos |-> p, ev |-> {}])}} : TRUE

FailedCallsOf(cs) == {i \in DOMAIN cs : ~cs[i].ok}

\* C22: when a statement inside the block of an if, a function or a macro
\* fails, the first parse_statement call, that of the enclosing statement,
\* fails with that statement's error and with the cursor where it was
\* raised; the error list holds one error per failed call, this one first;
\* the next call is a top-level call that starts one token further on, inside
\* the block, and the calls go on to the end of the tokens.  When no
\* statement of the block fails, the first call succeeds and ends on the
\* closing brace.
C22_BlockErrorAbortsStatement ==
    calls # <<>> =>
        \A failure \in {FirstFailureFrom(tokens, Len(BlockHeadOf(tokens)) + 1)} :
            IF failure.ok
            THEN calls[1].ok /\ calls[1].end = Len(tokens)
            ELSE /\ ~calls[1].ok
                 /\ calls[1].at = 1
                 /\ calls[1].err = failure.err
                 /\ calls[1].end = failure.st.pos
                 /\ Len(errors) = Cardinality(FailedCallsOf(calls))
                 /\ errors[1] = failure.err
                 /\ Len(calls) >= 2 => calls[2].at = failure.st.pos + 1
                 /\ pc = "done" =>
                       /\ ~result.ok
                       /\ result.errors = errors
                       /\ failure.st.pos < Len(tokens)
                       /\ Len(calls) >= 2
                       /\ calls[Len(calls)].end >= Len(tokens)

C22_Witness ==
    /\ pc = "done"
    /\ tokens = <<Tok("Function"), Tok("LParen"), a, Tok("RParen"), Tok("LBrace"),
                  Tok("Let"), a, one, Tok("Semicolon"), a, Tok("Semicolon"), Tok("RBrace")>>
    /\ ~calls[1].ok
    /\ calls[1].end = 7
    /\ calls[2].at = 8
    /\ calls[2].ok
    /\ calls[2].stmt = SExpression(EInteger(<<1>>))
    /\ calls[3].ok
    /\ calls[3].stmt = SExpression(EIdentifier("a"))
    /\ Len(calls) = 4
    /\ ~calls[4].ok
    /\ Len(result.errors) = 2

C22_WitnessAlternative ==
    /\ pc = "done"
    /\ BlockHeadOf(tokens)[3] = b
    /\ ~calls[1].ok
    /\ calls[1].end > Len(BlockHeadOf(tokens))
    /\ Len(calls) >= 3
    /\ calls[2].ok

C22_WitnessNoFailure ==
    /\ pc = "done"
    /\ result.ok
    /\ Len(calls) = 1
    /\ calls[1].stmt.expression.type = "Macro"
    /\ Len(calls[1].stmt.expression.body.statements) = 2

\* parse returned the program of the one expression statement
ParsedAs(expr) == result = [ok |-> TRUE, program |-> Program(<<SExpression(expr)>>)]

\* C23: a prefix operator binds tighter than every binary operator and
\* looser than call and index, and call and index bind tighter than every
\* binary operator: `-a * b` is Infix(Prefix(-, a), *, b), `!-a` is
\* Prefix(!, Prefix(-, a)), `-c(a)` is Prefix(-, Call c), `-a[b]` is
\* Prefix(-, Index(a, b)), `a * b[2]` is Infix(a, *, Index(b, 2)) and
\* `a * c(b)` is Infix(a, *, Call c), for each prefix and binary operator.
C23_PrefixBetweenBinaryAndCall ==
    pc = "done" =>
        /\ \A p \in PrefixOperators, o \in BinaryOperators :
              /\ tokens = PrefixThenInfix(p, o) =>
                    ParsedAs(EInfix(EPrefix(p, EIdentifier("a")), infix_operator(o), EIdentifier("b")))
              /\ tokens = PrefixIndexInfixCall(p, o) =>
                    ParsedAs(EInfix(EPrefix(p, EIndex(EIdentifier("a"), EIdentifier("b"))), infix_operator(o),
                                    ECall(EIdentifier("c"), <<EIdentifier("d")>>)))
        /\ \A p \in PrefixOperators, q \in PrefixOperators :
              tokens = PrefixOfPrefix(p, q) => ParsedAs(EPrefix(p, EPrefix(q, EIdentifier("a"))))
        /\ \A p \in PrefixOperators :
              /\ tokens = PrefixOfCall(p) => ParsedAs(EPrefix(p, ECall(EIdentifier("c"), <<EIdentifier("a")>>)))
              /\ tokens = PrefixOfIndex(p) => ParsedAs(EPrefix(p, EIndex(EIdentifier("a"), EIdentifier("b"))))
        /\ \A o \in BinaryOperators :
              /\ tokens = InfixThenIndex(o) =>
                    ParsedAs(EInfix(EIdentifier("a"), infix_operator(o), EIndex(EIdentifier("b"), EInteger(<<2>>))))
              /\ tokens = InfixThenCall(o) =>
                    ParsedAs(EInfix(EIdentifier("a"), infix_operator(o), ECall(EIdentifier("c"), <<EIdentifier("b")>>)))

C23_Witness ==
    /\ pc = "done"
    /\ tokens = <<Tok("Minus"), a, Tok("Asterisk"), b>>
    /\ ParsedAs(EInfix(EPrefix("Minus", EIdentifier("a")), "Mul", EIdentifier("b")))

C23_WitnessIndex ==
    /\ pc = "done"
    /\ tokens = <<a, Tok("Asterisk"), b, Tok("LBracket"), two, Tok("RBracket")>>
    /\ ParsedAs(EInfix(EIdentifier("a"), "Mul", EIndex(EIdentifier("b"), EInteger(<<2>>))))

C23_WitnessCall ==
    /\ pc = "done"
    /\ tokens = <<Tok("Minus"), c, Tok("LParen"), a, Tok("RParen")>>
    /\ ParsedAs(EPrefix("Minus", ECall(EIdentifier("c"), <<EIdentifier("a")>>)))

\* toks parse to one expression statement and hold no semicolon
IsOneExpression(toks, parsed) ==
    /\ parsed.ok
    /\ Len(parsed.program.statements) = 1
    /\ parsed.program.statements[1].type = "Expression"
    /\ \A i \in DOMAIN toks : toks[i].kind # "Semicolon"

\* C24: a grouped expression adds no node and overrides precedence: when
\* the tokens e parse to one expression, `( e )` parses to the same program;
\* `(a + b) * c` is Infix(Infix(a, +, b), *, c) and `a * (b + c)` is
\* Infix(a, *, Infix(b, +, c)); and when the expression that starts after a
\* leading `(` is not followed by `)`, the statement fails.
C24_GroupAddsNoNode ==
    pc = "done" =>
        /\ (Len(tokens) >= 2 /\ tokens[1].kind = "LParen" /\ tokens[Len(tokens)].kind = "RParen") =>
              \A inner \in {parse(SubSeq(tokens, 2, Len(tokens) - 1))} :
                  IsOneExpression(SubSeq(tokens, 2, Len(tokens) - 1), inner) => result = inner
        /\ tokens = GroupedSumTimes =>
              ParsedAs(EInfix(EInfix(EIdentifier("a"), "Add", EIdentifier("b")), "Mul", EIdentifier("c")))
        /\ tokens = TimesGroupedSum =>
              ParsedAs(EInfix(EIdentifier("a"), "Mul", EInfix(EIdentifier("b"), "Add", EIdentifier("c"))))
        /\ tokens[1].kind = "LParen" =>
              \A expr \in {parse_expression(tokens, [pos |-> 2, ev |-> {}], Lowest)} :
                  (expr.ok /\ peek_token(tokens, expr.st).kind # "RParen") =>
                      /\ ~calls[1].ok
                      /\ calls[1].end = expr.st.pos
                      /\ ~result.ok

C24_Witness ==
    /\ pc = "done"
    /\ tokens = <<Tok("LParen"), a, Tok("Plus"), a, Tok("RParen")>>
    /\ ParsedAs(EInfix(EIdentifier("a"), "Add", EIdentifier("a")))
    /\ result = parse(<<a, Tok("Plus"), a>>)

C24_WitnessProduct ==
    /\ pc = "done"
    /\ tokens = GroupedSumTimes
    /\ result.ok
    /\ result.program.statements[1].expression.left.type = "Infix"

C24_WitnessNested ==
    /\ pc = "done"
    /\ tokens = <<Tok("LParen"), Tok("LParen"), a, Tok("RParen"), Tok("RParen")>>
    /\ ParsedAs(EIdentifier("a"))

C24_WitnessUnclosed ==
    /\ pc = "done"
    /\ tokens = <<Tok("LParen"), a, Tok("Plus"), a, a, Tok("RParen")>>
    /\ ~calls[1].ok
    /\ calls[1].end = 4
    /\ ~result.ok

\* the names the nodes of the family use for parameters and Let identifiers
BoundNames == {"x", "y"}

\* after has the parts of before that are no expressions: the variants of
\* the rebuilt expressions and statements, the operators, the parameters, the
\* identifiers of the Let statements; what the modifier was given is left open
RECURSIVE FrameKept(_, _)
RECURSIVE FrameKeptInStatement(_, _)
FrameKeptInStatements(before, after) ==
    /\ Len(after) = Len(before)
    /\ \A i \in DOMAIN before : FrameKeptInStatement(before[i], after[i])

FrameKept(before, after) ==
    CASE before.type \in LeafVariants -> TRUE
      [] before.type = "Hash" -> after.type = "Hash"
      [] before.type = "Array" ->
           /\ after.type = "Array"
           /\ Len(after.elements) = Len(before.elements)
           /\ \A i \in DOMAIN before.elements : FrameKept(before.elements[i], after.elements[i])
      [] before.type = "Prefix" ->
           /\ after.type = "Prefix"
           /\ after.operator = before.operator
           /\ FrameKept(before.right, after.right)
      [] before.type = "Infix" ->
           /\ after.type = "Infix"
           /\ after.operator = before.operator
           /\ FrameKept(before.left, after.left)
           /\ FrameKept(before.right, after.right)
      [] before.type = "If" ->
           /\ after.type = "If"
           /\ FrameKept(before.condition, after.condition)
           /\ FrameKeptInStatements(before.consequence.statements, after.consequence.statements)
           /\ Len(after.alternative) = Len(before.alternative)
           /\ \A i \in DOMAIN before.alternative :
                 FrameKeptInStatements(before.alternative[i].statements, after.alternative[i].statements)
      [] before.type = "Function" ->
           /\ after.type = "Function"
           /\ after.params = before.params
           /\ FrameKeptInStatements(before.body.statements, after.body.statements)
      [] before.type = "Index" ->
           /\ after.type = "Index"
           /\ FrameKept(before.left, after.left)
           /\ FrameKept(before.index, after.index)

FrameKeptInStatement(before, after) ==
    /\ after.type = before.type
    /\ CASE before.type = "Let" ->
              after.identifier = before.identifier /\ FrameKept(before.expression, after.expression)
         [] before.type \in {"Return", "Expression"} -> FrameKept(before.expression, after.expression)
         [] before.type = "Block" -> FrameKeptInStatements(before.block.statements, after.block.statements)

FrameKeptInNode(before, after) ==
    /\ after.node = before.node
    /\ CASE before.node = "Program" -> FrameKeptInStatements(before.program.statements, after.program.statements)
         [] before.node = "Statement" -> FrameKeptInStatement(before.statement, after.statement)
         [] before.node = "Expression" -> FrameKept(before.expression, after.expression)

\* C25: whatever the modifier does, the node modify returns has the
\* identifier of every Let statement, the operator of every Prefix and Infix
\* expression and the parameters of every Function that modify rebuilds as
\* they are in the input, and the modifier is never called with a parameter
\* or with the identifier of a Let statement.
C25_NonExpressionPartsUnchanged ==
    pc = "done" =>
        /\ out.ok => FrameKeptInNode(node, out.node)
        /\ \A i \in DOMAIN seen :
              /\ seen[i].node = "Expression"
              /\ seen[i].expression.type = "Identifier" => seen[i].expression.name \notin BoundNames

C25_Witness ==
    /\ pc = "done"
    /\ transform = "negate_a"
    /\ node = NStatement(SLet("x", EFunction(<<"x">>, BlockStatement(<<SExpression(EIdentifier("a")), SReturn(EInteger(<<1>>))>>))))
    /\ out.ok
    /\ out.node = NStatement(SLet("x", EFunction(<<"x">>,
                      BlockStatement(<<SExpression(EPrefix("Minus", EIdentifier("a"))), SReturn(EInteger(<<1>>))>>))))
    /\ seen = <<NExpression(EIdentifier("a")), NExpression(EInteger(<<1>>))>>

C25_WitnessOperators ==
    /\ pc = "done"
    /\ transform = "turn_one_into_two"
    /\ node = NExpression(EPrefix("Minus", EInfix(EInteger(<<1>>), "Add", EInteger(<<1>>))))
    /\ out.ok
    /\ out.node = NExpression(EPrefix("Minus", EInfix(EInteger(<<2>>), "Add", EInteger(<<2>>))))

\* the value of a digit text, in three groups of nine digits, the most
\* significant first; defined for texts of at most 27 digits
RECURSIVE ValueOf(_)
ValueOf(ds) == IF ds = <<>> THEN 0 ELSE 10 * ValueOf(SubSeq(ds, 1, Len(ds) - 1)) + ds[Len(ds)]

GroupsOf(ds) ==
    LET padded == Zeros(27 - Len(ds)) \o ds
    IN  <<ValueOf(SubSeq(padded, 1, 9)), ValueOf(SubSeq(padded, 10, 18)), ValueOf(SubSeq(padded, 19, 27))>>

\* 2^63 - 1 = 9 223372036 854775807
MaxGroups == <<9, 223372036, 854775807>>

InI64Range(ds) ==
    \A g \in {GroupsOf(ds)} :
        \/ g[1] < MaxGroups[1]
        \/ g[1] = MaxGroups[1] /\ g[2] < MaxGroups[2]
        \/ g[1] = MaxGroups[1] /\ g[2] = MaxGroups[2] /\ g[3] <= MaxGroups[3]

\* the expression the context holds for the Integer of the literal
IntegerExpression(context, int) ==
    CASE context = "expression" -> SExpression(int)
      [] context = "minus" -> SExpression(EPrefix("Minus", int))
      [] context = "let" -> SLet("a", int)
      [] context = "sum" -> SExpression(EInfix(int, "Add", EInteger(<<1>>)))
      [] context = "array" -> SExpression(EArray(<<EInteger(<<1>>), int>>))

\* the Integer of the one statement parsed in the context
IntegerParsedIn(context, stmt) ==
    CASE context = "expression" -> stmt.expression
      [] context = "minus" -> stmt.expression.right
      [] context = "let" -> stmt.expression
      [] context = "sum" -> stmt.expression.left
      [] context = "array" -> stmt.expression.elements[2]

\* C26: an integer literal is accepted exactly when its value is at most
\* 2^63 - 1, and then the Integer has that value; a greater literal fails
\* the statement with the parse error of the integer, raised on the literal,
\* also as the operand of a unary minus, in a let statement, as an operand of
\* a sum and as an array element.
C26_IntegerLiteralInI64Range ==
    pc = "done" =>
        \A context \in IntegerContexts, ds \in IntegerLiterals :
            tokens = IntegerIn(context, ds) =>
                IF InI64Range(ds)
                THEN /\ result.ok
                     /\ Len(result.program.statements) = 1
                     /\ \A int \in {IntegerParsedIn(context, result.program.statements[1])} :
                           /\ int.type = "Integer"
                           /\ GroupsOf(int.int) = GroupsOf(ds)
                           /\ result.program.statements[1] = IntegerExpression(context, int)
                ELSE /\ ~result.ok
                     /\ ~calls[1].ok
                     /\ calls[1].err = <<"could not parse", IntTok(ds), "integer">>
                     /\ tokens[calls[1].end] = IntTok(ds)

C26_Witness ==
    /\ pc = "done"
    /\ tokens = <<Tok("Minus"), IntTok(<<9, 2, 2, 3, 3, 7, 2, 0, 3, 6, 8, 5, 4, 7, 7, 5, 8, 0, 8>>)>>
    /\ ~result.ok
    /\ Len(result.errors) = 1

C26_WitnessMax ==
    /\ pc = "done"
    /\ tokens = <<IntTok(<<0, 9, 2, 2, 3, 3, 7, 2, 0, 3, 6, 8, 5, 4, 7, 7, 5, 8, 0, 7>>)>>
    /\ result.ok
    /\ result.program.statements[1].expression = EInteger(<<9, 2, 2, 3, 3, 7, 2, 0, 3, 6, 8, 5, 4, 7, 7, 5, 8, 0, 7>>)

C26_WitnessNoWrap ==
    /\ pc = "done"
    /\ tokens = <<IntTok(<<1, 8, 4, 4, 6, 7, 4, 4, 0, 7, 3, 7, 0, 9, 5, 5, 1, 6, 2, 1>>), Tok("Plus"), one>>
    /\ ~result.ok
    /\ ~calls[1].ok

FailedChecks == {e \in ev : e.e = "check"}

\* C27: in every state of every run no internal check has failed: no
\* expect_current_token has returned its error, parse_expression_statement
\* and parse_statement have not been entered with no current token, and
\* parse_infix has not been entered with a lookahead it does not handle.
C27_NoInternalCheckFails == FailedChecks = {}

C27_Witness ==
    /\ pc = "done"
    /\ tokens \in CheckTemplates
    /\ tokens[1].kind = "Macro"
    /\ result.ok
    /\ Len(result.program.statements) = 1
    /\ \E e \in ev : e.e = "ret" /\ e.fn = "parse_block_statement"
    /\ FailedChecks = {}

C27_WitnessFailedParse ==
    /\ pc = "done"
    /\ ~result.ok
    /\ Len(result.errors) >= 3
    /\ \E i \in DOMAIN tokens : tokens[i].kind = "Unquote"
    /\ FailedChecks = {}

CursorReturns == {e \in ev : e.e = "ret" /\ e.fn \in {"parse_expression", "parse_block_statement", "parse_statement"}}

\* the tokens a construct can end with: a closing bracket, brace or
\* parenthesis, the semicolon of a statement, an operand
LastTokens == {"RParen", "RBracket", "RBrace", "Semicolon", "Identifier", "Int", "True", "False", "String"}

\* as many opening as closing tokens of the pair among tokens i..j
Balanced(toks, i, j, open, close) ==
    Cardinality({k \in i..j : toks[k].kind = open}) = Cardinality({k \in i..j : toks[k].kind = close})

\* the cursor of a successful return is on a token, one a construct can end
\* with, and the tokens from the start of the construct to it are balanced
OnLastToken(toks, e) ==
    /\ e.from <= e.to
    /\ e.to <= Len(toks)
    /\ toks[e.to].kind \in LastTokens
    /\ e.fn = "parse_block_statement" => toks[e.to].kind = "RBrace"
    /\ e.fn = "parse_expression" => toks[e.to].kind # "Semicolon"
    /\ Balanced(toks, e.from, e.to, "LParen", "RParen")
    /\ Balanced(toks, e.from, e.to, "LBracket", "RBracket")
    /\ Balanced(toks, e.from, e.to, "LBrace", "RBrace")

\* C28: whenever parse_expression, parse_block_statement or parse_statement
\* has returned successfully, the current token was the last token of the
\* parsed construct (its closing bracket, brace or parenthesis, its
\* semicolon, or its last operand) and not a position past it.
C28_CursorOnLastToken == \A e \in CursorReturns : OnLastToken(tokens, e)

\* The returns that leave the cursor elsewhere are those of a block that is
\* still open when the input ends, and of what encloses it: they leave no
\* current token.
C28_CursorOnLastTokenOrPastOpenBlock ==
    \A e \in CursorReturns :
        \/ OnLastToken(tokens, e)
        \/ /\ e.to = Len(tokens) + 1
           /\ ~Balanced(tokens, e.from, Len(tokens), "LBrace", "RBrace")

IsHashNode(n) == n.node = "Expression" /\ n.expression.type = "Hash"

\* the entries of the input hash, each with its key and its value rewritten
\* on its own
RewrittenEntries(n, T) ==
    [i \in DOMAIN n.expression.pairs |->
        <<modify_expression(n.expression.pairs[i][1], T, <<>>).val,
          modify_expression(n.expression.pairs[i][2], T, <<>>).val>>]

\* C29 as stated: modify of a Hash returns a Hash with as many entries as
\* the input, one rewritten entry (rewritten key mapped to rewritten value)
\* per input entry, also when two input keys are rewritten to the same key.
C29_OneEntryPerInputEntry ==
    pc = "done" /\ IsHashNode(node) /\ out.ok =>
        \A rewritten \in {RewrittenEntries(node, transform)} :
            /\ IsHashNode(out.node)
            /\ Len(out.node.expression.pairs) = Len(node.expression.pairs)
            /\ \A i \in DOMAIN rewritten : \E j \in DOMAIN out.node.expression.pairs :
                  out.node.expression.pairs[j] = rewritten[i]

\* C29 amended: modify of a Hash returns a Hash with one entry per distinct
\* rewritten key, in ascending key order; each entry is the rewritten entry
\* of the last input entry (the one of the greatest input key) rewritten to
\* that key, so the number of entries is that of the input exactly when the
\* rewritten keys are distinct.
C29_OneEntryPerRewrittenKey ==
    pc = "done" /\ IsHashNode(node) /\ out.ok =>
        \A rewritten \in {RewrittenEntries(node, transform)} :
        \A pairs \in {out.node.expression.pairs} :
            /\ IsHashNode(out.node)
            /\ Len(pairs) = Cardinality({rewritten[i][1] : i \in DOMAIN rewritten})
            /\ \A j \in DOMAIN pairs : \E i \in DOMAIN rewritten :
                  /\ pairs[j] = rewritten[i]
                  /\ \A k \in DOMAIN rewritten : k > i => rewritten[k][1] # pairs[j][1]
            /\ \A j \in DOMAIN pairs : j < Len(pairs) => ExprCmp(pairs[j][1], pairs[j + 1][1]) < 0

\* keys 1 and 2 are both rewritten to 2: one entry, that of input key 2
C29_Witness ==
    /\ pc = "done"
    /\ transform = "turn_one_into_two"
    /\ node = NExpression(EHash(<<<<EInteger(<<1>>), EIdentifier("a")>>, <<EInteger(<<2>>), EIdentifier("b")>>>>))
    /\ out.ok
    /\ out.node = NExpression(EHash(<<<<EInteger(<<2>>), EIdentifier("b")>>>>))

\* distinct rewritten keys: as many entries as the input, in the order of
\* the rewritten keys (a rewritten to -a sorts after b)
C29_WitnessReordered ==
    /\ pc = "done"
    /\ transform = "negate_a"
    /\ node = NExpression(EHash(<<<<EIdentifier("a"), EInteger(<<1>>)>>, <<EIdentifier("b"), EInteger(<<1>>)>>>>))
    /\ out.ok
    /\ out.node = NExpression(EHash(<<<<EIdentifier("b"), EInteger(<<1>>)>>, <<EPrefix("Minus", EIdentifier("a")), EInteger(<<1>>)>>>>))

StatementNodes(stmts) == [i \in DOMAIN stmts |-> NStatement(stmts[i])]

ExpressionNodes(exprs) == [i \in DOMAIN exprs |-> NExpression(exprs[i])]

\* the parts of a node modify recurses into, in the order of the claim; none
\* for a node handed to the modifier
Children(n) ==
    CASE n.node = "Program" -> StatementNodes(n.program.statements)
      [] n.node = "Statement" /\ n.statement.type = "Block" -> StatementNodes(n.statement.block.statements)
      [] n.node = "Statement" /\ n.statement.type # "Block" -> <<NExpression(n.statement.expression)>>
      [] n.node = "Expression" /\ n.expression.type = "Array" -> ExpressionNodes(n.expression.elements)
      [] n.node = "Expression" /\ n.expression.type = "Hash" ->
           [i \in 1..(2 * Len(n.expression.pairs)) |->
               NExpression(n.expression.pairs[(i + 1) \div 2][IF i % 2 = 1 THEN 1 ELSE 2])]
      [] n.node = "Expression" /\ n.expression.type = "Prefix" -> <<NExpression(n.expression.right)>>
      [] n.node = "Expression" /\ n.expression.type = "Infix" ->
           <<NExpression(n.expression.left), NExpression(n.expression.right)>>
      [] n.node = "Expression" /\ n.expression.type = "If" ->
           <<NExpression(n.expression.condition)>>
           \o StatementNodes(n.expression.consequence.statements)
           \o (IF n.expression.alternative = <<>> THEN <<>>
               ELSE StatementNodes(n.expression.alternative[1].statements))
      [] n.node = "Expression" /\ n.expression.type = "Function" -> StatementNodes(n.expression.body.statements)
      [] n.node = "Expression" /\ n.expression.type = "Index" ->
           <<NExpression(n.expression.left), NExpression(n.expression.index)>>
      [] OTHER -> <<>>

IsVisitedLeaf(n) ==
    /\ n.node = "Expression"
    /\ n.expression.type \notin {"Array", "Hash", "Prefix", "Infix", "If", "Function", "Index"}

ThenVisits(r, rest) == CHOOSE y \in {IF x.ok THEN x.log \o rest ELSE x.log : x \in {r}} : TRUE

\* the invocations of modify on each child by itself, one child after the
\* other, up to the first child that fails
RECURSIVE VisitsInOrder(_, _)
VisitsInOrder(children, T) ==
    IF children = <<>> THEN <<>>
    ELSE ThenVisits(modify(Head(children), T), VisitsInOrder(Tail(children), T))

AscendingKeys(pairs) == \A i \in DOMAIN pairs : i < Len(pairs) => ExprCmp(pairs[i][1], pairs[i + 1][1]) < 0

\* C30: the modifier is invoked depth first and left to right, once per
\* visited leaf: on a leaf the only invocation is the one on the leaf; on a
\* composite the invocations are those for its first part, all of them, then
\* those for its next part, and so on in the order statements in sequence,
\* array elements by index, hash entries by ascending key with the key
\* before its value, left operand before right, indexed expression before
\* index, condition before consequence before alternative; the invocations
\* stop with the first one that fails.
C30_InvocationsDepthFirstLeftToRight ==
    pc = "done" =>
        /\ IsVisitedLeaf(node) => seen = <<node>>
        /\ ~IsVisitedLeaf(node) => seen = VisitsInOrder(Children(node), transform)
        /\ IsHashNode(node) => AscendingKeys(node.expression.pairs)
        /\ out.ok => \A i \in DOMAIN seen : IsVisitedLeaf(seen[i])

\* (if (a) { return 1 } else { let x = b; 1 }) + 1: condition, consequence,
\* alternative, and then the right operand
C30_Witness ==
    /\ pc = "done"
    /\ transform = "identity"
    /\ node = NExpression(EInfix(
                 EIf(EIdentifier("a"), BlockOf(<<SReturn(EInteger(<<1>>))>>),
                     <<BlockOf(<<SLet("x", EIdentifier("b")), SExpression(EInteger(<<1>>))>>)>>),
                 "Add", EInteger(<<1>>)))
    /\ seen = <<NExpression(EIdentifier("a")), NExpression(EInteger(<<1>>)), NExpression(EIdentifier("b")),
                NExpression(EInteger(<<1>>)), NExpression(EInteger(<<1>>))>>

\* {1: a, 2: b}: key 1, its value, key 2, its value
C30_WitnessHash ==
    /\ pc = "done"
    /\ out.ok
    /\ node = NExpression(EHash(<<<<EInteger(<<1>>), EIdentifier("a")>>, <<EInteger(<<2>>), EIdentifier("b")>>>>))
    /\ seen = <<NExpression(EInteger(<<1>>)), NExpression(EIdentifier("a")),
                NExpression(EInteger(<<2>>)), NExpression(EIdentifier("b"))>>

\* the invocations stop inside the first statement of a program
C30_WitnessStopped ==
    /\ pc = "done"
    /\ ~out.ok
    /\ node.node = "Program"
    /\ Len(node.program.statements) = 2
    /\ seen # <<>>
    /\ Len(seen) < Len(VisitsInOrder(Children(node), "identity"))

====
